---------------------------- MODULE Spec2Model ----------------------------
(***************************************************************************)
(* A model of the PSU menu analyzer: the scrape-then-score pipeline of     *)
(* src/main.py (MenuAnalyzer), its scorers and hard filters, and the       *)
(* caller-facing analyze entrypoints (src/main.py, src/api/analyze.py,     *)
(* src/main_simple.py).                                                    *)
(*                                                                         *)
(* Food names, labels and reasons are strings; Python's str.lower() and    *)
(* the substring test `t in s` are modelled character by character.        *)
(* Nutrient amounts are integers; every float comparison of the scorer     *)
(* (a ratio against 0.25, 0.20, 0.15, 0.10, 0.3, 0.5, 1.0, 2.0, 3.0) is    *)
(* cross-multiplied, which is exact for integer amounts: a quotient that   *)
(* equals the threshold rounds to the same double as the literal, and any  *)
(* other quotient differs from it by far more than one ulp.                *)
(***************************************************************************)
EXTENDS Integers, Sequences, FiniteSets, TLC

VARIABLES
    pc,                 \* position of the operation in progress
    analyzer,           \* the MenuAnalyzer instance's fields (self)
    arg,                \* argument of the function under call
    ret,                \* value it returned
    calls,              \* log of scorer calls: input, preference, result
    entry,              \* the entrypoint serving the request
    req,                \* the request's JSON body
    site,               \* what the upstream site answers during this request
    net,                \* network calls made so far, in order
    form_options,       \* run_analysis: form_options
    campus_value,       \* run_analysis: campus_value
    date_value,         \* run_analysis: date_value
    meal_index,         \* run_analysis: position of the loop over the meals
    daily_menu,         \* run_analysis: daily_menu
    csv_path,           \* run_analysis: csv_path
    analyzed_results,   \* run_analysis: analyzed_results
    filtered_results,   \* run_analysis: filtered_items of each meal
    result,             \* what the analysis returned
    response            \* the HTTP response

fnVars == <<arg, ret, calls>>
runVars == <<form_options, campus_value, date_value, meal_index, daily_menu,
             csv_path, analyzed_results, filtered_results, result>>
pipeVars == <<entry, req, site, net, form_options, campus_value, date_value,
              meal_index, daily_menu, csv_path, analyzed_results,
              filtered_results, result, response>>
vars == <<pc, analyzer, arg, ret, calls, entry, req, site, net, form_options,
          campus_value, date_value, meal_index, daily_menu, csv_path,
          analyzed_results, filtered_results, result, response>>

None == "None"

\* the pipeline's variables while no request is being served
NoRequest ==
    /\ entry = None /\ req = None /\ site = None /\ net = <<>>
    /\ form_options = None /\ campus_value = None /\ date_value = None
    /\ meal_index = 0 /\ daily_menu = <<>> /\ csv_path = None
    /\ analyzed_results = <<>>
    /\ filtered_results = <<>> /\ result = None /\ response = None

-----------------------------------------------------------------------------
(* Strings *)

LowerChar(c) ==
    CASE c = "A" -> "a" [] c = "B" -> "b" [] c = "C" -> "c" [] c = "D" -> "d"
      [] c = "E" -> "e" [] c = "F" -> "f" [] c = "G" -> "g" [] c = "H" -> "h"
      [] c = "I" -> "i" [] c = "J" -> "j" [] c = "K" -> "k" [] c = "L" -> "l"
      [] c = "M" -> "m" [] c = "N" -> "n" [] c = "O" -> "o" [] c = "P" -> "p"
      [] c = "Q" -> "q" [] c = "R" -> "r" [] c = "S" -> "s" [] c = "T" -> "t"
      [] c = "U" -> "u" [] c = "V" -> "v" [] c = "W" -> "w" [] c = "X" -> "x"
      [] c = "Y" -> "y" [] c = "Z" -> "z" [] OTHER -> c

RECURSIVE Lower(_)
Lower(s) ==
    IF Len(s) = 0 THEN ""
    ELSE LowerChar(SubSeq(s, 1, 1)) \o Lower(SubSeq(s, 2, Len(s)))

\* Python's `t in s` for strings
Contains(s, t) ==
    \E i \in 1..(Len(s) - Len(t) + 1) : SubSeq(s, i, i + Len(t) - 1) = t

\* any(k in s for k in keywords), keywords a sequence
AnyIn(keywords, s) == \E i \in 1..Len(keywords) : Contains(s, keywords[i])

RECURSIVE Join(_)
\* ", ".join(parts)
Join(parts) ==
    IF Len(parts) = 0 THEN ""
    ELSE IF Len(parts) = 1 THEN parts[1]
    ELSE parts[1] \o ", " \o Join(Tail(parts))

Min(a, b) == IF a < b THEN a ELSE b
Max(a, b) == IF a > b THEN a ELSE b

-----------------------------------------------------------------------------
(* Local scoring engine *)

\* a clamp that forgets the lower bound
ClampUpperOnly(score) == Min(100, score)

\* score = max(0, min(100, score))
Clamp(score) == Max(0, Min(100, score))

\* protein tiers with the two upper awards exchanged
ProteinPartSwapped(calories, protein) ==
    IF protein * 16 >= calories THEN <<20, "Excellent protein density">>
    ELSE IF protein * 20 >= calories THEN <<30, "Good protein density">>
    ELSE IF protein * 80 >= 3 * calories THEN <<10, "Moderate protein density">>
    ELSE <<-10, "Low protein density">>

\* protein tier: points and tag
ProteinPart(calories, protein) ==
    IF protein * 16 >= calories THEN <<30, "Excellent protein density">>
    ELSE IF protein * 20 >= calories THEN <<20, "Good protein density">>
    ELSE IF protein * 80 >= 3 * calories THEN <<10, "Moderate protein density">>
    ELSE <<-10, "Low protein density">>

FatPart(total_fat, saturated_fat) ==
    IF total_fat > 0
    THEN IF 10 * saturated_fat <= 3 * total_fat THEN <<<<20, "Healthy fat profile">>>>
         ELSE IF 2 * saturated_fat <= total_fat THEN <<<<10, "Moderate fat profile">>>>
         ELSE <<<<-10, "High saturated fat">>>>
    ELSE <<>>

FiberPart(fiber) ==
    IF fiber >= 5 THEN <<15, "High fiber content">>
    ELSE IF fiber >= 3 THEN <<10, "Good fiber content">>
    ELSE IF fiber >= 1 THEN <<5, "Moderate fiber content">>
    ELSE <<-5, "Low fiber content">>

\* sodium tiers that penalise the low end instead of the high end
SodiumPartInverted(calories, sodium) ==
    IF sodium <= calories THEN <<-10, "Low sodium">>
    ELSE IF sodium <= 2 * calories THEN <<5, "Moderate sodium">>
    ELSE IF sodium <= 3 * calories THEN <<10, "Acceptable sodium">>
    ELSE <<15, "High sodium">>

SodiumPart(calories, sodium) ==
    IF sodium <= calories THEN <<15, "Low sodium">>
    ELSE IF sodium <= 2 * calories THEN <<10, "Moderate sodium">>
    ELSE IF sodium <= 3 * calories THEN <<5, "Acceptable sodium">>
    ELSE <<-10, "High sodium">>

SugarPart(calories, added_sugars) ==
    IF added_sugars > 0
    THEN IF added_sugars * 16 >= calories THEN <<<<-15, "Very high added sugar">>>>
         ELSE IF added_sugars * 80 >= 3 * calories THEN <<<<-10, "High added sugar">>>>
         ELSE IF added_sugars * 40 >= calories THEN <<<<-5, "Moderate added sugar">>>>
         ELSE <<<<5, "Low added sugar">>>>
    ELSE <<>>

\* calorie tiers whose first boundary leaves 200 out
CaloriePartStrict(calories) ==
    IF calories < 200 THEN <<<<10, "Low calorie density">>>>
    ELSE IF calories <= 400 THEN <<<<5, "Moderate calorie density">>>>
    ELSE IF calories >= 800 THEN <<<<-10, "High calorie density">>>>
    ELSE <<>>

CaloriePart(calories) ==
    IF calories <= 200 THEN <<<<10, "Low calorie density">>>>
    ELSE IF calories <= 400 THEN <<<<5, "Moderate calorie density">>>>
    ELSE IF calories >= 800 THEN <<<<-10, "High calorie density">>>>
    ELSE <<>>

PriorityPart(calories, protein, prioritize_protein) ==
    IF prioritize_protein /\ protein * 20 >= calories
    THEN <<<<10, "High protein priority">>>>
    ELSE <<>>

RECURSIVE SumPoints(_)
SumPoints(parts) ==
    IF Len(parts) = 0 THEN 0 ELSE parts[1][1] + SumPoints(Tail(parts))

Tags(parts) == [i \in 1..Len(parts) |-> parts[i][2]]

\* the adjustments of one record, in the order the code applies them
NutritionParts(nutrition_data, prioritize_protein) ==
    <<ProteinPart(nutrition_data.calories, nutrition_data.protein_g)>>
    \o FatPart(nutrition_data.total_fat_g, nutrition_data.saturated_fat_g)
    \o <<FiberPart(nutrition_data.dietary_fiber_g)>>
    \o <<SodiumPart(nutrition_data.calories, nutrition_data.sodium_mg)>>
    \o SugarPart(nutrition_data.calories, nutrition_data.added_sugars_g)
    \o CaloriePart(nutrition_data.calories)
    \o PriorityPart(nutrition_data.calories, nutrition_data.protein_g, prioritize_protein)

\* a scorer that lets the detail URL leak into the score
ScoreReadsUrl(nutrition_data, prioritize_protein) ==
    IF nutrition_data.calories = 0
    THEN <<50, "No nutrition data available">>
    ELSE LET parts == NutritionParts(nutrition_data, prioritize_protein)
         IN  <<Clamp(50 + SumPoints(parts) + (IF nutrition_data.url = "#" THEN 0 ELSE 1)),
               Join(Tags(parts))>>

\* MenuAnalyzer.calculate_health_score_from_nutrition: (score, reasoning)
calculate_health_score_from_nutrition(nutrition_data, prioritize_protein) ==
    IF nutrition_data.calories = 0
    THEN <<50, "No nutrition data available">>
    ELSE LET parts == NutritionParts(nutrition_data, prioritize_protein)
         IN  <<Clamp(50 + SumPoints(parts)),
               IF Len(parts) > 0 THEN Join(Tags(parts)) ELSE "Standard nutrition profile">>

protein_keywords ==
    << <<"excellent", <<"chicken", "salmon", "tuna", "turkey">> >>,
       <<"good", <<"beef", "eggs", "tofu", "beans">> >>,
       <<"moderate", <<"cheese", "yogurt">> >> >>

\* the source spells the 'good' keyword with the two characters "Ã©"
healthy_prep ==
    << <<"excellent", <<"grilled", "baked", "steamed">> >>,
       <<"good", <<"sautÃ©ed">> >>,
       <<"poor", <<"fried", "creamy", "battered">> >> >>

protein_weights(prioritize_protein) ==
    IF prioritize_protein
    THEN [excellent |-> 40, good |-> 30, moderate |-> 15]
    ELSE [excellent |-> 30, good |-> 20, moderate |-> 10]

\* preparation weights that reward the poor styles like the excellent ones
prep_weights_flat(prioritize_protein) ==
    IF prioritize_protein
    THEN [excellent |-> 10, good |-> 5, poor |-> 10]
    ELSE [excellent |-> 20, good |-> 10, poor |-> 20]

prep_weights(prioritize_protein) ==
    IF prioritize_protein
    THEN [excellent |-> 10, good |-> 5, poor |-> -15]
    ELSE [excellent |-> 20, good |-> 10, poor |-> -25]

\* level of the first tier, in table order, one of whose keywords is in the
\* name; None when no tier matches (the loop's break)
FirstLevel(table, item_lower) ==
    LET hits == {i \in 1..Len(table) : AnyIn(table[i][2], item_lower)}
    IN  IF hits = {} THEN None
        ELSE table[CHOOSE i \in hits : \A j \in hits : i <= j][1]

\* MenuAnalyzer._fallback_keyword_scoring: (score, reasoning)
_fallback_keyword_scoring(item, prioritize_protein) ==
    LET item_lower == Lower(item)
        plevel == FirstLevel(protein_keywords, item_lower)
        hlevel == FirstLevel(healthy_prep, item_lower)
        ppart == IF plevel = None THEN <<>>
                 ELSE << <<protein_weights(prioritize_protein)[plevel],
                           "High protein (" \o plevel \o ")">> >>
        hpart == IF hlevel = None THEN <<>>
                 ELSE << <<prep_weights(prioritize_protein)[hlevel],
                           "Prep style (" \o hlevel \o ")">> >>
        parts == ppart \o hpart
    IN  <<Clamp(50 + SumPoints(parts)),
          IF Len(parts) > 0 THEN Join(Tags(parts))
          ELSE "Standard option (keyword-based)">>

-----------------------------------------------------------------------------
(* Preference filter and ranker *)

BeefTerms == <<"beef">>

\* a pork list that forgets "ham"
PorkTermsNoHam == <<"pork", "bacon", "sausage">>

PorkTerms == <<"pork", "bacon", "sausage", "ham">>

\* a vegetarian list that forgets bacon
VegetarianTermsNoBacon ==
    <<"beef", "pork", "chicken", "turkey", "fish", "salmon", "tuna", "sausage", "ham">>

VegetarianTerms ==
    <<"beef", "pork", "chicken", "turkey", "fish", "salmon", "tuna", "bacon",
      "sausage", "ham">>

\* a vegan list that forgets the cured meats
VeganTermsNoCured ==
    <<"beef", "pork", "chicken", "turkey", "fish", "salmon", "tuna",
      "egg", "eggs", "dairy", "milk", "cheese", "butter", "yogurt">>

VeganTerms ==
    <<"beef", "pork", "chicken", "turkey", "fish", "salmon", "tuna", "bacon",
      "sausage", "ham", "egg", "eggs", "dairy", "milk", "cheese", "butter",
      "yogurt">>

\* the `excluded` flag of one item of apply_hard_filters
Excluded(item_lower, self) ==
    \/ self.exclude_beef /\ AnyIn(BeefTerms, item_lower)
    \/ self.exclude_pork /\ AnyIn(PorkTerms, item_lower)
    \/ self.vegetarian /\ AnyIn(VegetarianTerms, item_lower)
    \/ self.vegan /\ AnyIn(VeganTerms, item_lower)

\* MenuAnalyzer.apply_hard_filters; items are (food, score, reason, url)
apply_hard_filters(food_items, self) ==
    IF ~(self.exclude_beef \/ self.exclude_pork \/ self.vegetarian \/ self.vegan)
    THEN food_items
    ELSE SelectSeq(food_items, LAMBDA t : ~Excluded(Lower(t[1]), self))

\* s[:n]
Take(s, n) == SubSeq(s, 1, Min(n, Len(s)))

\* s[a:b], 0-based and half-open as in Python
Slice(s, a, b) == SubSeq(s, a + 1, Min(b, Len(s)))

\* insertion that sorts the wrong way round
InsertAsc(sorted, x) ==
    LET before == {i \in 1..Len(sorted) : sorted[i][2] <= x[2]}
        k == Cardinality(before)
    IN  SubSeq(sorted, 1, k) \o <<x>> \o SubSeq(sorted, k + 1, Len(sorted))

\* x goes after every element whose score is >= its own: the sort is stable
InsertDesc(sorted, x) ==
    LET before == {i \in 1..Len(sorted) : sorted[i][2] >= x[2]}
        k == Cardinality(before)
    IN  SubSeq(sorted, 1, k) \o <<x>> \o SubSeq(sorted, k + 1, Len(sorted))

RECURSIVE SortDesc(_)
\* list.sort(key=lambda x: x[1], reverse=True)
SortDesc(s) ==
    IF Len(s) = 0 THEN <<>>
    ELSE InsertDesc(SortDesc(SubSeq(s, 1, Len(s) - 1)), s[Len(s)])

IsCyo(food) ==
    Contains(Lower(food), "cyo") \/ Contains(Lower(food), "create your own")

\* run_analysis, one meal of the final loop: the top 5 and one extra per CYO
\* item found among them
RankMeal(filtered_items) ==
    LET top_5 == Take(filtered_items, 5)
        cyo_count == Cardinality({i \in 1..Len(top_5) : IsCyo(top_5[i][1])})
    IN  IF cyo_count > 0
        THEN top_5 \o Slice(filtered_items, 5, 5 + cyo_count)
        ELSE top_5

-----------------------------------------------------------------------------
(* The analyzer instance *)

MkAnalyzer(eb, ep, veg, vgn, pp, en, key) ==
    [campus_key |-> "altoona-port-sky", gemini_api_key |-> key,
     exclude_beef |-> eb, exclude_pork |-> ep, vegetarian |-> veg,
     vegan |-> vgn, prioritize_protein |-> pp, extract_nutrition |-> en]

-----------------------------------------------------------------------------
(* The scorers as functions: one call on one input *)

MaxCalUnits == 9
MaxProteinUnits == 5
MaxSodiumUnits == 4

CaloriesValues == {100 * k : k \in 0..MaxCalUnits} \cup {201, 401, 799}
ProteinValues == {5 * k : k \in 0..MaxProteinUnits} \cup {60}
\* (total_fat_g, saturated_fat_g)
FatProfiles == {<<0, 0>>, <<10, 0>>, <<10, 3>>, <<10, 5>>, <<10, 6>>}
FiberValues == {0, 1, 3, 5}
SodiumValues == {100 * k : k \in 0..MaxSodiumUnits} \cup {2500}
AddedSugarValues == {0, 2, 3, 4, 7, 10, 15, 50}

NutritionRecord(cal, p, fat, fiber, na, sugar, u, ts) ==
    [calories |-> cal, protein_g |-> p, total_fat_g |-> fat[1],
     saturated_fat_g |-> fat[2], dietary_fiber_g |-> fiber, sodium_mg |-> na,
     added_sugars_g |-> sugar, url |-> u, extraction_timestamp |-> ts]

NutrientRecords ==
    {NutritionRecord(cal, p, fat, fiber, na, sugar, "#", 0) :
        cal \in CaloriesValues, p \in ProteinValues, fat \in FatProfiles,
        fiber \in FiberValues, na \in SodiumValues, sugar \in AddedSugarValues}

KeywordNames ==
    {"Grilled Chicken Breast", "Fried Chicken Nuggets", "Baked Salmon",
     "Creamy Tuna Casserole", "Battered Fish", "Scrambled Eggs", "Beef Stir-Fry",
     "Steamed Tofu", "Cheese Pizza", "Greek Yogurt", "Oatmeal", "Fried Rice",
     "Fried Tofu", "Creamy Yogurt Dip", "Baked Cheese Ravioli", "Steamed Rice",
     "Baked Creamy Chicken Pasta", "Sauteed Spinach"}

InitScore ==
    /\ pc = "call"
    /\ \E pp \in BOOLEAN : analyzer = MkAnalyzer(FALSE, FALSE, FALSE, FALSE, pp, FALSE, None)
    /\ arg \in [kind : {"nutrition"}, nutrition_data : NutrientRecords]
               \cup [kind : {"name"}, item : KeywordNames]
    /\ ret = None
    /\ calls = <<>>
    /\ NoRequest

ScoreNutrition ==
    /\ pc = "call"
    /\ arg.kind = "nutrition"
    /\ ret' = calculate_health_score_from_nutrition(arg.nutrition_data,
                                                    analyzer.prioritize_protein)
    /\ pc' = "returned"
    /\ UNCHANGED <<analyzer, arg, calls, pipeVars>>

ScoreKeyword ==
    /\ pc = "call"
    /\ arg.kind = "name"
    /\ ret' = _fallback_keyword_scoring(arg.item, analyzer.prioritize_protein)
    /\ pc' = "returned"
    /\ UNCHANGED <<analyzer, arg, calls, pipeVars>>

NextScore == ScoreNutrition \/ ScoreKeyword

SpecScore == InitScore /\ [][NextScore]_vars

\* C1: for every nutrient record, the all-zero one included, and either value
\* of prioritize_protein, calculate_health_score_from_nutrition returns an
\* integer score between 0 and 100.
C1_ScoreInBounds ==
    (pc = "returned" /\ arg.kind = "nutrition") => ret[1] \in 0..100

\* a record whose adjustments sum below zero has been scored, and the clamp
\* brought it to 0
C1_Witness ==
    /\ pc = "returned"
    /\ arg.kind = "nutrition"
    /\ 50 + SumPoints(NutritionParts(arg.nutrition_data, analyzer.prioritize_protein)) < 0
    /\ ret[1] = 0

\* protein density tier of a record: 0 below 0.15, 1 from 0.15, 2 from 0.20,
\* 3 from 0.25 of the calories
ProteinTier(calories, protein) ==
    IF protein * 16 >= calories THEN 3
    ELSE IF protein * 20 >= calories THEN 2
    ELSE IF protein * 80 >= 3 * calories THEN 1
    ELSE 0

\* sodium density tier: 0 up to 1.0, 1 up to 2.0, 2 up to 3.0, 3 above
SodiumTier(calories, sodium) ==
    IF sodium <= calories THEN 0
    ELSE IF sodium <= 2 * calories THEN 1
    ELSE IF sodium <= 3 * calories THEN 2
    ELSE 3

\* C11: a record with calories > 0 has been scored; the same record with
\* more protein, in a higher protein density tier, never scores lower, for
\* either value of prioritize_protein.
C11_ProteinMonotone ==
    (pc = "returned" /\ arg.kind = "nutrition" /\ arg.nutrition_data.calories > 0) =>
        \A p \in ProteinValues :
            LET first == arg.nutrition_data
                second == [first EXCEPT !.protein_g = p]
            IN  ProteinTier(first.calories, p) > ProteinTier(first.calories, first.protein_g)
                    => calculate_health_score_from_nutrition(
                           second, analyzer.prioritize_protein)[1] >= ret[1]

\* a record of the moderate tier was scored, and the same record in the good
\* tier scores strictly higher
C11_Witness ==
    /\ pc = "returned" /\ arg.kind = "nutrition" /\ arg.nutrition_data.calories > 0
    /\ ProteinTier(arg.nutrition_data.calories, arg.nutrition_data.protein_g) = 1
    /\ \E p \in ProteinValues :
           /\ ProteinTier(arg.nutrition_data.calories, p) = 2
           /\ calculate_health_score_from_nutrition(
                  [arg.nutrition_data EXCEPT !.protein_g = p],
                  analyzer.prioritize_protein)[1] > ret[1]

\* C12: a record with calories > 0 has been scored; the same record with
\* more sodium, in a higher sodium density tier, never scores higher.
C12_SodiumMonotone ==
    (pc = "returned" /\ arg.kind = "nutrition" /\ arg.nutrition_data.calories > 0) =>
        \A na \in SodiumValues :
            LET first == arg.nutrition_data
                second == [first EXCEPT !.sodium_mg = na]
            IN  SodiumTier(first.calories, na) > SodiumTier(first.calories, first.sodium_mg)
                    => calculate_health_score_from_nutrition(
                           second, analyzer.prioritize_protein)[1] <= ret[1]

\* a record of the acceptable tier was scored, and the same record in the
\* high tier scores strictly lower
C12_Witness ==
    /\ pc = "returned" /\ arg.kind = "nutrition" /\ arg.nutrition_data.calories > 0
    /\ SodiumTier(arg.nutrition_data.calories, arg.nutrition_data.sodium_mg) = 2
    /\ \E na \in SodiumValues :
           /\ SodiumTier(arg.nutrition_data.calories, na) = 3
           /\ calculate_health_score_from_nutrition(
                  [arg.nutrition_data EXCEPT !.sodium_mg = na],
                  analyzer.prioritize_protein)[1] < ret[1]

\* the seven adjustments as the tier tables state them, in hundredths where a
\* threshold is a ratio
TierP(d) ==
    IF 400 * d.protein_g >= 25 * d.calories THEN 30
    ELSE IF 400 * d.protein_g >= 20 * d.calories THEN 20
    ELSE IF 400 * d.protein_g >= 15 * d.calories THEN 10
    ELSE -10

TierF(d) ==
    IF d.total_fat_g = 0 THEN 0
    ELSE IF 100 * d.saturated_fat_g <= 30 * d.total_fat_g THEN 20
    ELSE IF 100 * d.saturated_fat_g <= 50 * d.total_fat_g THEN 10
    ELSE -10

TierFi(d) ==
    IF d.dietary_fiber_g >= 5 THEN 15
    ELSE IF d.dietary_fiber_g >= 3 THEN 10
    ELSE IF d.dietary_fiber_g >= 1 THEN 5
    ELSE -5

TierS(d) ==
    IF d.sodium_mg <= d.calories THEN 15
    ELSE IF d.sodium_mg <= 2 * d.calories THEN 10
    ELSE IF d.sodium_mg <= 3 * d.calories THEN 5
    ELSE -10

TierA(d) ==
    IF d.added_sugars_g <= 0 THEN 0
    ELSE IF 400 * d.added_sugars_g >= 25 * d.calories THEN -15
    ELSE IF 400 * d.added_sugars_g >= 15 * d.calories THEN -10
    ELSE IF 400 * d.added_sugars_g >= 10 * d.calories THEN -5
    ELSE 5

TierC(d) ==
    IF d.calories <= 200 THEN 10
    ELSE IF d.calories <= 400 THEN 5
    ELSE IF d.calories >= 800 THEN -10
    ELSE 0

TierB(d, prioritize_protein) ==
    IF prioritize_protein /\ 400 * d.protein_g >= 20 * d.calories THEN 10 ELSE 0

TierSum(d, prioritize_protein) ==
    50 + TierP(d) + TierF(d) + TierFi(d) + TierS(d) + TierA(d) + TierC(d)
       + TierB(d, prioritize_protein)

\* C21: for every record with calories > 0 the score returned by
\* calculate_health_score_from_nutrition is 50 plus the protein, fat, fiber,
\* sodium, added sugar and calorie adjustments of the tier tables plus the
\* protein priority bonus, brought into 0..100.
C21_ScoreFormula ==
    (pc = "returned" /\ arg.kind = "nutrition" /\ arg.nutrition_data.calories > 0) =>
        LET total == TierSum(arg.nutrition_data, analyzer.prioritize_protein)
        IN  ret[1] = IF total < 0 THEN 0 ELSE IF total > 100 THEN 100 ELSE total

\* a record on the 200-calorie boundary whose seven adjustments all differ
\* from 0 was scored, and the sum was not cut by the clamp
C21_Witness ==
    /\ pc = "returned" /\ arg.kind = "nutrition"
    /\ arg.nutrition_data.calories = 200
    /\ analyzer.prioritize_protein
    /\ TierF(arg.nutrition_data) # 0 /\ TierA(arg.nutrition_data) # 0
    /\ TierB(arg.nutrition_data, TRUE) = 10
    /\ ret[1] = TierSum(arg.nutrition_data, TRUE)
    /\ ret[1] \in 1..99

\* the keyword tiers and weights as the scoring tables state them
StatedProteinTiers ==
    << <<"excellent", <<"chicken", "salmon", "tuna", "turkey">> >>,
       <<"good", <<"beef", "eggs", "tofu", "beans">> >>,
       <<"moderate", <<"cheese", "yogurt">> >> >>

StatedPrepTiers ==
    << <<"excellent", <<"grilled", "baked", "steamed">> >>,
       <<"good", <<"sauteed">> >>,
       <<"poor", <<"fried", "creamy", "battered">> >> >>

StatedProteinWeight(level, prioritize_protein) ==
    IF level = None THEN 0
    ELSE IF prioritize_protein
    THEN [excellent |-> 40, good |-> 30, moderate |-> 15][level]
    ELSE [excellent |-> 30, good |-> 20, moderate |-> 10][level]

StatedPrepWeight(level, prioritize_protein) ==
    IF level = None THEN 0
    ELSE IF prioritize_protein
    THEN [excellent |-> 10, good |-> 5, poor |-> -15][level]
    ELSE [excellent |-> 20, good |-> 10, poor |-> -25][level]

\* C22: the keyword score of a name is 50 plus the protein weight and the
\* preparation weight of the first matching tier of each category, brought
\* into 0..100; a name that matches no keyword scores 50 with the reasoning
\* "Standard option".
C22_KeywordFormula ==
    (pc = "returned" /\ arg.kind = "name") =>
        LET item_lower == Lower(arg.item)
            plevel == FirstLevel(StatedProteinTiers, item_lower)
            hlevel == FirstLevel(StatedPrepTiers, item_lower)
            total == 50 + StatedProteinWeight(plevel, analyzer.prioritize_protein)
                        + StatedPrepWeight(hlevel, analyzer.prioritize_protein)
        IN  /\ ret[1] = IF total < 0 THEN 0 ELSE IF total > 100 THEN 100 ELSE total
            /\ (plevel = None /\ hlevel = None) => ret = <<50, "Standard option">>

\* the tier of a name in a keyword table: the first level, in table order,
\* one of whose keywords the lowercased name contains
KeywordTier(table, item) == FirstLevel(table, Lower(item))

\* C13: a name whose preparation tier is 'excellent' has been scored by
\* keywords; it scored strictly higher than any name of the same protein
\* keyword tier whose preparation tier is 'poor', for either value of
\* prioritize_protein; "Grilled Chicken Breast" scores strictly higher than
\* "Fried Chicken Nuggets".
C13_PrepOrder ==
    (pc = "returned" /\ arg.kind = "name") =>
        /\ KeywordTier(healthy_prep, arg.item) = "excellent" =>
             \A other \in KeywordNames :
                 (/\ KeywordTier(healthy_prep, other) = "poor"
                  /\ KeywordTier(protein_keywords, other)
                        = KeywordTier(protein_keywords, arg.item))
                 => ret[1] > _fallback_keyword_scoring(other, analyzer.prioritize_protein)[1]
        /\ arg.item = "Grilled Chicken Breast" =>
             ret[1] > _fallback_keyword_scoring("Fried Chicken Nuggets",
                                                analyzer.prioritize_protein)[1]

C13_Witness ==
    /\ pc = "returned" /\ arg.kind = "name"
    /\ arg.item = "Grilled Chicken Breast"
    /\ analyzer.prioritize_protein
    /\ ret[1] = 100
    /\ _fallback_keyword_scoring("Fried Chicken Nuggets", TRUE)[1] = 75

-----------------------------------------------------------------------------
(* The scorers called repeatedly on one server: purity *)

MaxCalls == 3

\* records that agree or differ on nutrients, detail URL and extraction time
PurityRecords ==
    {NutritionRecord(cal, 20, <<0, 0>>, 0, 0, 0, u, ts) :
        cal \in {0, 300}, u \in {"#", "https://www.absecom.psu.edu/menus/user-pages/n.cfm?mid=1"},
        ts \in {1, 2}}

PurityNames == {"Grilled Chicken Breast", "Fried Chicken Nuggets", "Oatmeal"}

InitPurity ==
    /\ pc = "serving"
    /\ \E pp \in BOOLEAN : analyzer = MkAnalyzer(FALSE, FALSE, FALSE, FALSE, pp, FALSE, None)
    /\ arg = None
    /\ ret = None
    /\ calls = <<>>
    /\ NoRequest

\* a later request constructs its own analyzer, with its own preference
Construct ==
    /\ pc = "serving"
    /\ \E pp \in BOOLEAN :
         /\ pp # analyzer.prioritize_protein
         /\ analyzer' = MkAnalyzer(FALSE, FALSE, FALSE, FALSE, pp, FALSE, None)
    /\ UNCHANGED <<pc, arg, ret, calls, pipeVars>>

CallNutritionScorer ==
    /\ pc = "serving"
    /\ Len(calls) < MaxCalls
    /\ \E nd \in PurityRecords :
         LET out == calculate_health_score_from_nutrition(nd, analyzer.prioritize_protein)
         IN  /\ arg' = nd
             /\ ret' = out
             /\ calls' = Append(calls, [fn |-> "calculate_health_score_from_nutrition",
                                       arg |-> nd, pp |-> analyzer.prioritize_protein,
                                       ret |-> out])
    /\ UNCHANGED <<pc, analyzer, pipeVars>>

CallKeywordScorer ==
    /\ pc = "serving"
    /\ Len(calls) < MaxCalls
    /\ \E item \in PurityNames :
         LET out == _fallback_keyword_scoring(item, analyzer.prioritize_protein)
         IN  /\ arg' = item
             /\ ret' = out
             /\ calls' = Append(calls, [fn |-> "_fallback_keyword_scoring",
                                       arg |-> item, pp |-> analyzer.prioritize_protein,
                                       ret |-> out])
    /\ UNCHANGED <<pc, analyzer, pipeVars>>

NextPurity == Construct \/ CallNutritionScorer \/ CallKeywordScorer

SpecPurity == InitPurity /\ [][NextPurity]_vars

\* the inputs the scorers are specified to depend on
SameScoringInput(a, b) ==
    /\ a.fn = b.fn
    /\ a.pp = b.pp
    /\ IF a.fn = "_fallback_keyword_scoring"
       THEN a.arg = b.arg
       ELSE /\ a.arg.calories = b.arg.calories
            /\ a.arg.protein_g = b.arg.protein_g
            /\ a.arg.total_fat_g = b.arg.total_fat_g
            /\ a.arg.saturated_fat_g = b.arg.saturated_fat_g
            /\ a.arg.dietary_fiber_g = b.arg.dietary_fiber_g
            /\ a.arg.sodium_mg = b.arg.sodium_mg
            /\ a.arg.added_sugars_g = b.arg.added_sugars_g

-----------------------------------------------------------------------------
(* The hard filters as a function: one call on one list *)

MaxItems == 4

FilterCatalogs ==
    { <<"Beef Tacos", "Tofu Bowl", "Ham Sandwich", "Hamburger", "Pork Chop",
        "Oatmeal", "BEEF Chili", "Bacon">>,
      <<"Turkey Sausage", "Chicken Wrap", "Fish Sticks", "Baked Salmon",
        "Tuna Melt", "Scrambled Eggs", "Egg Salad", "Dairy Milk",
        "Cheese Pizza", "Butter Noodles", "Greek Yogurt", "Quinoa Bowl">> }

\* a scored item as the local scorer produces it for a name without a page
StubItem(food) ==
    LET sr == _fallback_keyword_scoring(food, FALSE)
    IN  <<food, sr[1], sr[2], "https://www.absecom.psu.edu/menus/user-pages/" \o food>>

FilterInputs ==
    {[k \in 1..n |-> StubItem(c[i + k - 1])] :
        <<c, i, n>> \in {x \in FilterCatalogs \X (1..12) \X (0..MaxItems) :
                            x[2] + x[3] - 1 <= Len(x[1])}}

InitFilter ==
    /\ pc = "call"
    /\ \E eb, ep, veg, vgn \in BOOLEAN :
         analyzer = MkAnalyzer(eb, ep, veg, vgn, FALSE, FALSE, None)
    /\ arg \in [kind : {"items"}, food_items : FilterInputs]
    /\ ret = None
    /\ calls = <<>>
    /\ NoRequest

Filter ==
    /\ pc = "call"
    /\ arg.kind = "items"
    /\ ret' = apply_hard_filters(arg.food_items, analyzer)
    /\ pc' = "returned"
    /\ UNCHANGED <<analyzer, arg, calls, pipeVars>>

NextFilter == Filter

SpecFilter == InitFilter /\ [][NextFilter]_vars

NamesOf(items) == [i \in 1..Len(items) |-> items[i][1]]

\* C4: with exclude_beef alone the filter removes exactly the items whose
\* lowercased name contains "beef"; with exclude_pork alone exactly those
\* containing pork, bacon, sausage or ham (so "Hamburger" goes); with both and
\* no other flag, [Beef Tacos, Tofu Bowl, Ham Sandwich] filters to [Tofu Bowl].
C4_BeefPorkFilter ==
    (pc = "returned" /\ ~analyzer.vegetarian /\ ~analyzer.vegan) =>
        LET beef(t) == Contains(Lower(t[1]), "beef")
            pork(t) == \/ Contains(Lower(t[1]), "pork")
                       \/ Contains(Lower(t[1]), "bacon")
                       \/ Contains(Lower(t[1]), "sausage")
                       \/ Contains(Lower(t[1]), "ham")
        IN  /\ ret = SelectSeq(arg.food_items,
                       LAMBDA t : ~( (analyzer.exclude_beef /\ beef(t))
                                     \/ (analyzer.exclude_pork /\ pork(t)) ))
            /\ analyzer.exclude_pork =>
                 \A i \in 1..Len(ret) : ret[i][1] # "Hamburger"
            /\ (/\ analyzer.exclude_beef
                /\ analyzer.exclude_pork
                /\ NamesOf(arg.food_items) = <<"Beef Tacos", "Tofu Bowl", "Ham Sandwich">>)
               => NamesOf(ret) = <<"Tofu Bowl">>

\* the spec's example list has been filtered with both flags set
C4_Witness ==
    /\ pc = "returned"
    /\ analyzer.exclude_beef /\ analyzer.exclude_pork
    /\ ~analyzer.vegetarian /\ ~analyzer.vegan
    /\ NamesOf(arg.food_items) = <<"Beef Tacos", "Tofu Bowl", "Ham Sandwich">>
    /\ NamesOf(ret) = <<"Tofu Bowl">>

\* C6: whatever exclude_beef and exclude_pork are, an item that the filter
\* removes with vegetarian=true (vegan=false) is removed with vegan=true
\* (vegetarian=false) as well.
C6_VeganSuperset ==
    (pc = "returned" /\ analyzer.vegan /\ ~analyzer.vegetarian) =>
        LET vegetarian_kept ==
                apply_hard_filters(arg.food_items,
                    [analyzer EXCEPT !.vegetarian = TRUE, !.vegan = FALSE])
        IN  \A i \in 1..Len(ret) :
                \E j \in 1..Len(vegetarian_kept) : vegetarian_kept[j] = ret[i]

\* a vegan run has removed an item that the vegetarian run removes, and kept
\* another one
C6_Witness ==
    /\ pc = "returned"
    /\ analyzer.vegan /\ ~analyzer.vegetarian
    /\ Len(ret) > 0
    /\ \E i \in 1..Len(arg.food_items) :
         /\ Contains(Lower(arg.food_items[i][1]), "ham")
         /\ \A j \in 1..Len(ret) : ret[j] # arg.food_items[i]

-----------------------------------------------------------------------------
(* Python dicts: sequences of <<key, value>> with distinct keys, in          *)
(* insertion order                                                          *)

Keys(d) == [i \in 1..Len(d) |-> d[i][1]]

HasKey(d, k) == \E i \in 1..Len(d) : d[i][1] = k

\* d.get(k, default)
Get(d, k, default) ==
    IF HasKey(d, k) THEN d[CHOOSE i \in 1..Len(d) : d[i][1] = k][2] ELSE default

\* d[k] = v: an existing key keeps its place
Put(d, k, v) ==
    IF HasKey(d, k)
    THEN [i \in 1..Len(d) |-> IF d[i][1] = k THEN <<k, v>> ELSE d[i]]
    ELSE Append(d, <<k, v>>)

-----------------------------------------------------------------------------
(* Form discovery, campus resolution, meal page scraper *)

base_url == "https://www.absecom.psu.edu/menus/user-pages/daily-menu.cfm"

\* the loop's meals taken from the last to the first
MealsDinnerFirst == <<"Dinner", "Lunch", "Breakfast">>

Meals == <<"Breakfast", "Lunch", "Dinner">>

\* urljoin(base_url, href) for the two shapes of href the menu page uses: a
\* fragment alone, and a file name relative to the page's directory
urljoin(href) ==
    IF SubSeq(href, 1, 1) = "#" THEN base_url
    ELSE "https://www.absecom.psu.edu/menus/user-pages/" \o href

\* one select of get_initial_form_data: lowercased label -> value, options
\* with an empty value or label skipped
ParseSelect(options) ==
    LET RECURSIVE Build(_, _)
        Build(i, d) ==
            IF i > Len(options) THEN d
            ELSE IF options[i][1] # "" /\ options[i][2] # ""
                 THEN Build(i + 1, Put(d, Lower(options[i][1]), options[i][2]))
                 ELSE Build(i + 1, d)
    IN  Build(1, <<>>)

\* MenuAnalyzer.get_initial_form_data on a successful GET
get_initial_form_data(page) ==
    [campus |-> ParseSelect(page.campus), meal |-> ParseSelect(page.meal),
     date |-> ParseSelect(page.date)]

\* the list's last entry, "nutrition" followed by a space and an arrow, is left
\* out: a text that contains it contains "nutrition", which is in the list
non_food_keywords ==
    <<"select", "menu", "date", "campus", "print", "view", "nutrition", "allergen",
      "feedback", "contact", "hours", "location", "penn state", "altoona",
      "port sky", "cafe", "kitchen", "station", "grill", "deli", "market",
      "made to order", "action", "no items", "not available", "closed",
      "dietary filters", "sign in", "account", "lunch for", "breakfast for",
      "dinner for", "monday", "tuesday", "wednesday", "thursday", "friday",
      "saturday", "sunday", "september", "october", "november", "december",
      "january", "february", "march", "april", "may", "june", "july", "august",
      "2025", "2024", "2023", "2022", "2021", "2020", "2019", "2018", "2017",
      "2016", "2015", "2014", "2013", "2012", "2011", "2010", "2009", "2008",
      "2007", "2006", "2005", "2004", "2003", "2002", "2001", "2000",
      "does not contain", "contains", "allergen", "dietary", "filters",
      "custom food", "order", "win", "daily menu">>

Letters ==
    {"a", "b", "c", "d", "e", "f", "g", "h", "i", "j", "k", "l", "m", "n", "o",
     "p", "q", "r", "s", "t", "u", "v", "w", "x", "y", "z"}

\* MenuAnalyzer.looks_like_food_item, on an anchor text already stripped
looks_like_food_item(text) ==
    /\ Len(text) >= 3
    /\ Len(text) <= 70
    /\ ~AnyIn(non_food_keywords, Lower(text))
    /\ \E i \in 1..Len(text) : LowerChar(SubSeq(text, i, i)) \in Letters

\* MenuAnalyzer.extract_items_from_meal_page: anchors are <<text, href>>
extract_items_from_meal_page(anchors) ==
    LET RECURSIVE Build(_, _)
        Build(i, items) ==
            IF i > Len(anchors) THEN items
            ELSE IF looks_like_food_item(anchors[i][1])
                 THEN Build(i + 1, Put(items, anchors[i][1], urljoin(anchors[i][2])))
                 ELSE Build(i + 1, items)
    IN  Build(1, <<>>)

search_terms ==
    << <<"altoona-port-sky", <<"altoona", "port sky">> >>,
       <<"beaver-brodhead", <<"beaver", "brodhead">> >>,
       <<"behrend-brunos", <<"behrend", "bruno">> >>,
       <<"behrend-dobbins", <<"behrend", "dobbins">> >>,
       <<"berks-tullys", <<"berks", "tully">> >>,
       <<"brandywine-blue-apple", <<"brandywine", "blue apple">> >>,
       <<"greater-allegheny-cafe-metro", <<"greater allegheny", "cafe metro">> >>,
       <<"harrisburg-stacks", <<"harrisburg", "stacks">> >>,
       <<"harrisburg-outpost", <<"harrisburg", "outpost">> >>,
       <<"hazleton-highacres", <<"hazleton", "highacres">> >>,
       <<"mont-alto-mill", <<"mont alto", "mill">> >>,
       <<"up-east-findlay", <<"east", "findlay">> >>,
       <<"up-north-warnock", <<"north", "warnock">> >>,
       <<"up-pollock", <<"pollock">> >>,
       <<"up-south-redifer", <<"south", "redifer">> >>,
       <<"up-west-waring", <<"west", "waring">> >> >>

\* a resolver that skips the pass over the labels holding every term
find_campus_value_any(campus_key, campus_options) ==
    LET campus_key_lower == Lower(campus_key)
        terms == Get(search_terms, campus_key_lower, <<campus_key_lower>>)
        any == {i \in 1..Len(campus_options) : AnyIn(terms, campus_options[i][1])}
    IN  IF any # {} THEN campus_options[CHOOSE i \in any : \A j \in any : i <= j][2]
        ELSE None

\* MenuAnalyzer.find_campus_value: the value found, or None
find_campus_value(campus_key, campus_options) ==
    LET campus_key_lower == Lower(campus_key)
        terms == Get(search_terms, campus_key_lower, <<campus_key_lower>>)
        all == {i \in 1..Len(campus_options) :
                   \A t \in 1..Len(terms) : Contains(campus_options[i][1], terms[t])}
        any == {i \in 1..Len(campus_options) : AnyIn(terms, campus_options[i][1])}
        first(S) == CHOOSE i \in S : \A j \in S : i <= j
    IN  IF all # {} THEN campus_options[first(all)][2]
        ELSE IF any # {} THEN campus_options[first(any)][2]
        ELSE None

-----------------------------------------------------------------------------
(* The campus resolver as a function: one call on one campus map *)

MaxLabels == 3

\* labels as get_initial_form_data keys them (lowercased), each with its value
CampusLabels ==
    {<<"altoona - port sky cafe", "40">>, <<"altoona commons", "41">>,
     <<"port sky annex", "42">>, <<"up: pollock dining commons", "14">>,
     <<"behrend - bruno's", "38">>, <<"hazleton market", "25">>}

\* campus maps: up to MaxLabels distinct labels in their order of insertion
CampusMaps ==
    UNION {{m \in [1..n -> CampusLabels] : \A i, j \in 1..n : i # j => m[i] # m[j]} :
              n \in 0..MaxLabels}

\* keys of the table, a key in another case, and keys that are not in it
CampusKeys == {"altoona-port-sky", "UP-Pollock", "behrend-brunos", "Hazleton", "erie"}

InitCampus ==
    /\ pc = "call"
    /\ analyzer = None
    /\ arg \in [campus_key : CampusKeys, campus_options : CampusMaps]
    /\ ret = None
    /\ calls = <<>>
    /\ NoRequest

FindCampus ==
    /\ pc = "call"
    /\ ret' = find_campus_value(arg.campus_key, arg.campus_options)
    /\ pc' = "returned"
    /\ UNCHANGED <<analyzer, arg, calls, pipeVars>>

NextCampus == FindCampus

SpecCampus == InitCampus /\ [][NextCampus]_vars

\* the search terms of the key under call
TermsOfKey ==
    IF HasKey(search_terms, Lower(arg.campus_key))
    THEN Get(search_terms, Lower(arg.campus_key), <<>>)
    ELSE <<Lower(arg.campus_key)>>

HoldsAll(i) ==
    \A t \in 1..Len(TermsOfKey) : Contains(arg.campus_options[i][1], TermsOfKey[t])

HoldsAny(i) ==
    \E t \in 1..Len(TermsOfKey) : Contains(arg.campus_options[i][1], TermsOfKey[t])

\* C24: find_campus_value returns the value of the first label, in the map's
\* order, that contains every search term of the key; when no label does, the
\* value of the first label that contains any term; when no label contains a
\* term, the empty map included, not-found; a key that is not in the table has
\* its lowercased self as only term.
C24_CampusResolution ==
    pc = "returned" =>
        LET n == Len(arg.campus_options)
        IN  /\ \A i \in 1..n :
                   (HoldsAll(i) /\ \A j \in 1..(i - 1) : ~HoldsAll(j))
                       => ret = arg.campus_options[i][2]
            /\ \A i \in 1..n :
                   (/\ \A j \in 1..n : ~HoldsAll(j)
                    /\ HoldsAny(i) /\ \A j \in 1..(i - 1) : ~HoldsAny(j))
                       => ret = arg.campus_options[i][2]
            /\ (\A j \in 1..n : ~HoldsAny(j)) => ret = None

\* a map was resolved in which a label holding one term comes before the
\* label holding both, and the value of the latter was returned
C24_Witness ==
    /\ pc = "returned"
    /\ Len(TermsOfKey) = 2
    /\ \E i, j \in 1..Len(arg.campus_options) :
           /\ i < j
           /\ HoldsAny(i) /\ ~HoldsAll(i) /\ HoldsAll(j)
           /\ ret = arg.campus_options[j][2]

-----------------------------------------------------------------------------
(* Nutrition extractor *)

\* an empty record that keeps a serving size
get_empty_nutrition_data_serving(url) ==
    [food_name |-> "Unknown", serving_size |-> "1 serving", calories |-> 0,
     protein_g |-> 0, total_fat_g |-> 0,
     saturated_fat_g |-> 0, dietary_fiber_g |-> 0, sodium_mg |-> 0,
     added_sugars_g |-> 0, ingredients |-> "", extraction_timestamp |-> 0, url |-> url]

\* NutritionExtractor._get_empty_nutrition_data
get_empty_nutrition_data(url) ==
    [food_name |-> "Unknown", serving_size |-> "", calories |-> 0,
     protein_g |-> 0, total_fat_g |-> 0,
     saturated_fat_g |-> 0, dietary_fiber_g |-> 0, sodium_mg |-> 0,
     added_sugars_g |-> 0, ingredients |-> "", extraction_timestamp |-> 0, url |-> url]

\* NutritionExtractor.extract_nutrition_data: the parsed page, or the empty
\* record when the fetch or the parse raised. `server` is what the upstream
\* serves in this request: server.detail maps a URL to its parsed page, and
\* no detail page can be fetched when server.detail_up is false (session.get
\* raises); a URL the upstream does not have is answered with an error
\* status (raise_for_status raises); a page marked broken makes the parse
\* raise
extract_nutrition_data(url, server) ==
    IF ~server.detail_up \/ ~HasKey(server.detail, url)
    THEN get_empty_nutrition_data(url)
    ELSE LET page == Get(server.detail, url, None)
         IN  IF page.broken THEN get_empty_nutrition_data(url)
             ELSE
             [food_name |-> page.food_name, serving_size |-> page.serving_size,
              ingredients |-> page.ingredients, calories |-> page.calories,
              protein_g |-> page.protein_g, total_fat_g |-> page.total_fat_g,
              saturated_fat_g |-> page.saturated_fat_g,
              dietary_fiber_g |-> page.dietary_fiber_g, sodium_mg |-> page.sodium_mg,
              added_sugars_g |-> page.added_sugars_g, extraction_timestamp |-> 0,
              url |-> url]

\* `if url and url != '#'`
HasDetailPage(url) == url # "" /\ url # "#"

GetCall(url) == [method |-> "GET", url |-> url]

\* the GETs that extracting every item of a name -> url dict makes, in order
DetailGets(items) ==
    LET with == SelectSeq(items, LAMBDA kv : HasDetailPage(kv[2]))
    IN  [i \in 1..Len(with) |-> GetCall(with[i][2])]

-----------------------------------------------------------------------------
(* Local analysis *)

\* MenuAnalyzer.analyze_food_health_local_list, one item
AnalyzeItem(item, url, self, server) ==
    LET nutrition_data == IF HasDetailPage(url)
                          THEN extract_nutrition_data(url, server)
                          ELSE get_empty_nutrition_data("#")
        sr == IF nutrition_data.calories > 0
              THEN calculate_health_score_from_nutrition(nutrition_data,
                                                         self.prioritize_protein)
              ELSE _fallback_keyword_scoring(item, self.prioritize_protein)
    IN  <<item, sr[1], sr[2], url>>

\* MenuAnalyzer.analyze_food_health_local_list
analyze_food_health_local_list(food_items, self, server) ==
    [i \in 1..Len(food_items) |->
        AnalyzeItem(food_items[i][1], food_items[i][2], self, server)]

\* MenuAnalyzer.analyze_menu_local
analyze_menu_local(menu, self, server) ==
    [m \in 1..Len(menu) |->
        <<menu[m][1],
          IF Len(menu[m][2]) = 0 THEN <<>>
          ELSE SortDesc(analyze_food_health_local_list(menu[m][2], self, server))>>]

\* a fallback menu with one item renamed
fallback_menu_renamed ==
    << <<"Breakfast", << <<"Scrambled Eggs", "#">>, <<"Turkey Sausage", "#">>,
                         <<"Steel Cut Oats", "#">> >> >>,
       <<"Lunch", << <<"Grilled Chicken Salad", "#">>, <<"Turkey Club Sandwich", "#">>,
                     <<"Quinoa Bowl", "#">> >> >>,
       <<"Dinner", << <<"Baked Salmon", "#">>, <<"Beef Stir-Fry", "#">>,
                      <<"Grilled Chicken Breast", "#">> >> >> >>

fallback_menu ==
    << <<"Breakfast", << <<"Scrambled Eggs", "#">>, <<"Turkey Sausage", "#">>,
                         <<"Oatmeal", "#">> >> >>,
       <<"Lunch", << <<"Grilled Chicken Salad", "#">>, <<"Turkey Club Sandwich", "#">>,
                     <<"Quinoa Bowl", "#">> >> >>,
       <<"Dinner", << <<"Baked Salmon", "#">>, <<"Beef Stir-Fry", "#">>,
                      <<"Grilled Chicken Breast", "#">> >> >> >>

\* MenuAnalyzer.get_fallback_data
get_fallback_data(self, server) ==
    LET analyzed == analyze_menu_local(fallback_menu, self, server)
    IN  [m \in 1..Len(analyzed) |->
            <<analyzed[m][1], Take(apply_hard_filters(analyzed[m][2], self), 5)>>]

-----------------------------------------------------------------------------
(* Analysis from extracted nutrition data *)

RECURSIVE Flatten(_)
Flatten(ss) == IF Len(ss) = 0 THEN <<>> ELSE ss[1] \o Flatten(Tail(ss))

\* the rows generate_nutrition_csv collects: one per item that has a detail
\* page, the extracted record with its meal
NutritionRows(menu, server) ==
    Flatten([m \in 1..Len(menu) |->
        LET with == SelectSeq(menu[m][2], LAMBDA kv : HasDetailPage(kv[2]))
        IN  [i \in 1..Len(with) |->
                [meal |-> menu[m][1],
                 nutrition_data |-> extract_nutrition_data(with[i][2], server)]]])

\* rows grouped by meal, meals in order of first appearance
GroupByMeal(csv_data) ==
    LET RECURSIVE Build(_, _)
        Build(i, d) ==
            IF i > Len(csv_data) THEN d
            ELSE Build(i + 1, Put(d, csv_data[i].meal,
                                  Append(Get(d, csv_data[i].meal, <<>>), csv_data[i])))
    IN  Build(1, <<>>)

ScoreRow(row, self) ==
    LET sr == calculate_health_score_from_nutrition(row.nutrition_data,
                                                    self.prioritize_protein)
    IN  <<row.nutrition_data.food_name, sr[1], sr[2], row.nutrition_data.url>>

\* an analysis that scores every row of a meal, shared with another meal or not
analyze_menu_local_from_csv_all(csv_data, self) ==
    LET meal_data == GroupByMeal(csv_data)
    IN  [m \in 1..Len(meal_data) |->
            <<meal_data[m][1],
              Take(SortDesc([i \in 1..Len(meal_data[m][2]) |->
                                ScoreRow(meal_data[m][2][i], self)]), 5)>>]

\* MenuAnalyzer.analyze_menu_local_from_csv
analyze_menu_local_from_csv(csv_data, self) ==
    LET meal_data == GroupByMeal(csv_data)
        appears_in_other_meals(meal, row) ==
            \E r \in 1..Len(csv_data) :
                /\ csv_data[r].meal # meal
                /\ csv_data[r].nutrition_data.food_name = row.nutrition_data.food_name
        OneMeal(meal, items) ==
            LET unique_items ==
                    SelectSeq(items, LAMBDA row : ~appears_in_other_meals(meal, row))
                others ==
                    SelectSeq(items, LAMBDA row :
                        \A u \in 1..Len(unique_items) : unique_items[u] # row)
                chosen == IF Len(unique_items) < 5 THEN unique_items \o others
                          ELSE unique_items
                analyzed_items == [i \in 1..Len(chosen) |-> ScoreRow(chosen[i], self)]
            IN  Take(SortDesc(analyzed_items), 5)
    IN  [m \in 1..Len(meal_data) |->
            <<meal_data[m][1], OneMeal(meal_data[m][1], meal_data[m][2])>>]

\* MenuAnalyzer.enhance_recommendations_with_nutrition
enhance_recommendations_with_nutrition(recommendations, server) ==
    [m \in 1..Len(recommendations) |->
        IF recommendations[m][1] = "_csv_path" THEN recommendations[m]
        ELSE <<recommendations[m][1],
               [i \in 1..Len(recommendations[m][2]) |->
                   LET it == recommendations[m][2][i]
                   IN  <<it[1], it[2], it[3], it[4],
                         IF HasDetailPage(it[4])
                         THEN extract_nutrition_data(it[4], server)
                         ELSE get_empty_nutrition_data("#")>>]>>]

\* the GETs of enhance_recommendations_with_nutrition
EnhanceGets(recommendations) ==
    Flatten([m \in 1..Len(recommendations) |->
        IF recommendations[m][1] = "_csv_path" THEN <<>>
        ELSE LET with == SelectSeq(recommendations[m][2],
                                   LAMBDA it : HasDetailPage(it[4]))
             IN  [i \in 1..Len(with) |-> GetCall(with[i][4])]])

-----------------------------------------------------------------------------
(* Analysis by the language model *)

\* self.gemini_url, set by __init__ when a key is configured
gemini_url(self) ==
    "https://generativelanguage.googleapis.com/v1beta/models/gemini-1.5-flash:generateContent?key="
        \o self.gemini_api_key

GeminiCall(self) == [method |-> "POST", url |-> gemini_url(self)]

\* what the model's endpoint answers: an HTTP error, a text without a JSON
\* object, or a JSON object meal -> list of objects. An object is a dict of
\* its keys: a key the model left out is absent, as item_info.get sees it
LlmReply(kind, body) == [kind |-> kind, body |-> body]

NoReply == LlmReply("none", <<>>)

\* (food_name, score, reasoning, url) of one object of the reply
GeminiItem(item_info, url) ==
    <<Get(item_info, "food_name", None), Get(item_info, "score", None),
      Get(item_info, "reasoning", None), url>>

\* meal_results.sort raises TypeError when it has to compare a missing score
SortRaises(analyzed_items) ==
    /\ Len(analyzed_items) >= 2
    /\ \E i \in 1..Len(analyzed_items) : ~HasKey(analyzed_items[i], "score")

\* the try block of analyze_menu_with_gemini and analyze_menu_with_gemini_csv
\* raises: raise_for_status, re.search(...).group on no match, or the sort
GeminiRaises(reply) ==
    \/ reply.kind # "json"
    \/ \E m \in 1..Len(reply.body) : SortRaises(reply.body[m][2])

\* MenuAnalyzer.analyze_menu_with_gemini
analyze_menu_with_gemini(menu, self, server) ==
    IF GeminiRaises(server.llm)
    THEN analyze_menu_local(menu, self, server)
    ELSE LET parsed_json == server.llm.body
         IN  [m \in 1..Len(parsed_json) |->
                LET meal == parsed_json[m][1]
                    analyzed_items == parsed_json[m][2]
                    meal_results ==
                        [i \in 1..Len(analyzed_items) |->
                            GeminiItem(analyzed_items[i],
                                       Get(Get(menu, meal, <<>>),
                                           Get(analyzed_items[i], "food_name", None),
                                           "#"))]
                IN  <<meal, SortDesc(meal_results)>>]

\* the first row of csv_data with this food_name and meal, or None
FindRow(csv_data, food_name, meal) ==
    LET hits == SelectSeq(csv_data, LAMBDA row :
                    row.nutrition_data.food_name = food_name /\ row.meal = meal)
    IN  IF Len(hits) = 0 THEN None ELSE hits[1]

HasRow(csv_data, food_name, meal) ==
    \E r \in 1..Len(csv_data) :
        csv_data[r].nutrition_data.food_name = food_name /\ csv_data[r].meal = meal

\* MenuAnalyzer._recalculate_top_items_scores
_recalculate_top_items_scores(ai_results, csv_data, self) ==
    [m \in 1..Len(ai_results) |->
        LET meal == ai_results[m][1]
            items == ai_results[m][2]
            recalculated_items ==
                [i \in 1..Len(items) |->
                    IF HasRow(csv_data, items[i][1], meal)
                    THEN LET nutrition_data == FindRow(csv_data, items[i][1], meal).nutrition_data
                             local == calculate_health_score_from_nutrition(
                                          nutrition_data, self.prioritize_protein)
                         IN  <<items[i][1], local[1], local[2], items[i][4]>>
                    ELSE items[i]]
        IN  <<meal, SortDesc(recalculated_items)>>]

\* MenuAnalyzer.analyze_menu_with_gemini_csv
analyze_menu_with_gemini_csv(csv_data, self, server) ==
    IF GeminiRaises(server.llm)
    THEN analyze_menu_local_from_csv(csv_data, self)
    ELSE LET parsed_json == server.llm.body
             results ==
                [m \in 1..Len(parsed_json) |->
                    LET meal == parsed_json[m][1]
                        analyzed_items == parsed_json[m][2]
                        meal_results ==
                            [i \in 1..Len(analyzed_items) |->
                                LET food_name == Get(analyzed_items[i], "food_name", None)
                                IN  GeminiItem(analyzed_items[i],
                                        IF HasRow(csv_data, food_name, meal)
                                        THEN FindRow(csv_data, food_name, meal).nutrition_data.url
                                        ELSE "#")]
                    IN  <<meal, SortDesc(meal_results)>>]
         IN  _recalculate_top_items_scores(results, csv_data, self)

-----------------------------------------------------------------------------
(* The upstream site, as a stub network layer answers for it *)

MaxMenuItems == 7

DetailUrl(mid) == "nutrition.cfm?mid=" \o mid

Dish(text, mid, cal, p, fat, sat, fiber, na, sugar) ==
    [text |-> text, href |-> DetailUrl(mid),
     page |-> [food_name |-> text, serving_size |-> "1 serving",
               ingredients |-> text, broken |-> FALSE,
               calories |-> cal, protein_g |-> p,
               total_fat_g |-> fat, saturated_fat_g |-> sat,
               dietary_fiber_g |-> fiber, sodium_mg |-> na, added_sugars_g |-> sugar]]

BreakfastDishes ==
    <<Dish("Scrambled Eggs", "101", 180, 12, 14, 4, 0, 190, 0),
      Dish("Bacon", "102", 120, 6, 10, 4, 0, 580, 0),
      Dish("Oatmeal", "103", 150, 5, 3, 1, 4, 5, 0),
      Dish("Create Your Own Omelet", "104", 400, 18, 28, 9, 1, 820, 2),
      Dish("Turkey Sausage", "105", 120, 10, 8, 2, 0, 420, 0),
      Dish("Blueberry Pancakes", "106", 450, 8, 12, 6, 2, 700, 20),
      Dish("Hash Browns", "107", 210, 2, 12, 2, 2, 300, 0),
      Dish("Greek Yogurt Parfait", "108", 240, 8, 4, 2, 1, 80, 18),
      Dish("Fresh Fruit Cup", "109", 80, 1, 0, 0, 3, 0, 0)>>

LunchDishes ==
    <<Dish("Chicken Caesar Wrap", "201", 520, 30, 24, 6, 3, 1100, 2),
      Dish("CYO Pasta Bowl", "202", 400, 25, 10, 3, 5, 380, 0),
      Dish("Beef Tacos", "203", 480, 22, 26, 10, 4, 900, 1),
      Dish("Tofu Bowl", "204", 350, 18, 12, 2, 6, 500, 3),
      Dish("Ham Sandwich", "205", 380, 20, 12, 4, 2, 1300, 4),
      Dish("Cheese Pizza", "206", 300, 12, 11, 5, 2, 640, 3),
      Dish("Garden Salad", "207", 60, 3, 0, 0, 3, 40, 0),
      Dish("French Fries", "208", 400, 4, 20, 3, 4, 300, 0),
      Dish("Baked Salmon", "209", 280, 34, 14, 3, 0, 250, 0)>>

DinnerDishes ==
    <<Dish("Baked Salmon", "209", 280, 34, 14, 3, 0, 250, 0),
      Dish("Beef Stir-Fry", "302", 420, 28, 18, 6, 3, 980, 6),
      Dish("Pork Chop", "303", 310, 30, 18, 6, 0, 420, 0),
      Dish("Steamed Broccoli", "304", 40, 3, 0, 0, 3, 30, 0),
      Dish("Fried Chicken Tenders", "305", 820, 30, 48, 12, 0, 2600, 0),
      Dish("Brown Rice", "306", 220, 5, 2, 0, 4, 10, 0),
      Dish("Hamburger", "307", 560, 28, 32, 14, 1, 780, 5),
      Dish("Tuna Melt", "308", 480, 26, 26, 10, 2, 1040, 3),
      Dish("Butter Noodles", "309", 390, 9, 14, 8, 2, 450, 0)>>

AllDishes == BreakfastDishes \o LunchDishes \o DinnerDishes

\* the detail pages the upstream has: URL -> parsed page
DetailPages ==
    LET RECURSIVE Build(_, _)
        Build(i, d) ==
            IF i > Len(AllDishes) THEN d
            ELSE Build(i + 1, Put(d, urljoin(AllDishes[i].href), AllDishes[i].page))
    IN  Build(1, <<>>)

\* links of a meal page that are no food items
PageChrome ==
    << <<"Print Menu", "print.cfm">>, <<"View Allergen Filters", "#">>,
       <<"Friday, November 6", "daily-menu.cfm">>, <<"", "#">> >>

\* the anchors of a meal page listing the first n dishes
MealPage(dishes, n) ==
    PageChrome \o [i \in 1..Min(n, Len(dishes)) |-> <<dishes[i].text, dishes[i].href>>]

CampusSelect ==
    << <<"Select a Campus", "">>, <<"UP: Pollock Dining Commons", "14">>,
       <<"Altoona - Port Sky Cafe", "40">>, <<"Behrend - Bruno's", "38">> >>

CampusSelectWithoutAltoona ==
    << <<"Select a Campus", "">>, <<"UP: Pollock Dining Commons", "14">>,
       <<"Behrend - Bruno's", "38">> >>

DateSelect == << <<"Friday, November 6", "11/06/26">>, <<"Saturday, November 7", "11/07/26">> >>

\* a date selector that still lists the day before
DateSelectFromThursday ==
    << <<"Thursday, November 5", "11/05/26">>, <<"Friday, November 6", "11/06/26">>,
       <<"Saturday, November 7", "11/07/26">> >>

MealSelect == << <<"Breakfast", "B">>, <<"Lunch", "L">>, <<"Dinner", "D">> >>

MealSelects ==
    {MealSelect, << <<"Breakfast", "B">>, <<"Dinner", "D">> >>, <<>>}

\* which meal POSTs fail: none, Lunch, all
PostFailures == {{}, {"L"}, {"B", "L", "D"}}

MenuSizes == {0, 2, MaxMenuItems}

MkSite(form_ok, campus, date, meal, failing, n, detail_up) ==
    [form_ok |-> form_ok,
     page |-> [campus |-> campus, date |-> date, meal |-> meal],
     posts |-> << <<"B", [ok |-> "B" \notin failing, anchors |-> MealPage(BreakfastDishes, n)]>>,
                  <<"L", [ok |-> "L" \notin failing, anchors |-> MealPage(LunchDishes, n)]>>,
                  <<"D", [ok |-> "D" \notin failing, anchors |-> MealPage(DinnerDishes, n)]>> >>,
     detail_up |-> detail_up,
     detail |-> DetailPages,
     \* os.getenv('GEMINI_API_KEY') and the answer of the model's endpoint
     api_key |-> None,
     llm |-> NoReply]

Sites ==
    {MkSite(FALSE, CampusSelect, DateSelect, MealSelect, {}, 2, TRUE),
     MkSite(TRUE, CampusSelectWithoutAltoona, DateSelect, MealSelect, {}, 2, TRUE),
     MkSite(TRUE, CampusSelect, <<>>, MealSelect, {}, 2, TRUE),
     MkSite(TRUE, CampusSelect, DateSelectFromThursday, MealSelect, {}, 2, TRUE)}
    \cup {MkSite(TRUE, CampusSelect, DateSelect, meal, failing, n, detail_up) :
            meal \in MealSelects, failing \in PostFailures, n \in MenuSizes,
            detail_up \in BOOLEAN}

-----------------------------------------------------------------------------
(* The analysis of extracted rows as a function: one call on one list of rows *)

MaxUnique == 7

\* the row generate_nutrition_csv writes for a dish of a meal
CsvRow(meal, dish) ==
    [meal |-> meal,
     nutrition_data |-> extract_nutrition_data(urljoin(dish.href),
                                               [detail_up |-> TRUE, detail |-> DetailPages])]

\* Lunch dishes that Dinner never serves
LunchOnly == <<LunchDishes[1], LunchDishes[2], LunchDishes[3], LunchDishes[4],
               LunchDishes[5], LunchDishes[6], LunchDishes[8], BreakfastDishes[3]>>

\* dishes served at Lunch and at Dinner: Garden Salad, Baked Salmon
SharedDishes == <<LunchDishes[7], LunchDishes[9]>>

RowsOf(meal, dishes) == [i \in 1..Len(dishes) |-> CsvRow(meal, dishes[i])]

\* rows of a Lunch with k dishes of its own and the chosen shared dishes,
\* before or after them, and of a Dinner serving the shared dishes
CsvData(k, shared, shared_first) ==
    LET own == RowsOf("Lunch", Take(LunchOnly, k))
        both == SelectSeq(SharedDishes, LAMBDA d : d.text \in shared)
    IN  (IF shared_first THEN RowsOf("Lunch", both) \o own
         ELSE own \o RowsOf("Lunch", both))
        \o RowsOf("Dinner", both \o <<DinnerDishes[2], DinnerDishes[3]>>)

InitCsv ==
    /\ pc = "call"
    /\ \E pp \in BOOLEAN : analyzer = MkAnalyzer(FALSE, FALSE, FALSE, FALSE, pp, TRUE, None)
    /\ \E k \in 0..MaxUnique, shared \in SUBSET {"Garden Salad", "Baked Salmon"},
          shared_first \in BOOLEAN :
          arg = [csv_data |-> CsvData(k, shared, shared_first)]
    /\ ret = None
    /\ calls = <<>>
    /\ NoRequest

AnalyzeCsv ==
    /\ pc = "call"
    /\ ret' = analyze_menu_local_from_csv(arg.csv_data, analyzer)
    /\ pc' = "returned"
    /\ UNCHANGED <<analyzer, arg, calls, pipeVars>>

NextCsv == AnalyzeCsv

SpecCsv == InitCsv /\ [][NextCsv]_vars

\* the names of the rows of a meal
NamesOfMeal(meal) ==
    {arg.csv_data[i].nutrition_data.food_name :
        i \in {j \in 1..Len(arg.csv_data) : arg.csv_data[j].meal = meal}}

\* the name is on the rows of another meal as well
SharedName(meal, food_name) ==
    \E i \in 1..Len(arg.csv_data) :
        arg.csv_data[i].meal # meal /\ arg.csv_data[i].nutrition_data.food_name = food_name

UniqueNames(meal) == {n \in NamesOfMeal(meal) : ~SharedName(meal, n)}

\* C29: when a meal has at least 5 items whose name is on no other meal,
\* analyze_menu_local_from_csv returns for it no item whose name another meal
\* has too, whatever the item's nutrient values; shared items are returned
\* only for a meal with fewer than 5 items of its own.
C29_SharedItemsLeftOut ==
    pc = "returned" =>
        \A m \in 1..Len(ret) :
            \A i \in 1..Len(ret[m][2]) :
                SharedName(ret[m][1], ret[m][2][i][1])
                    => Cardinality(UniqueNames(ret[m][1])) < 5

\* a Lunch with 5 dishes of its own and Baked Salmon, which outscores one of
\* the dishes returned, was analysed, and Baked Salmon was not returned
C29_Witness ==
    /\ pc = "returned"
    /\ Cardinality(UniqueNames("Lunch")) = 5
    /\ "Baked Salmon" \in NamesOfMeal("Lunch")
    /\ ret[1][1] = "Lunch"
    /\ Len(ret[1][2]) = 5
    /\ \A i \in 1..5 : ret[1][2][i][1] # "Baked Salmon"
    /\ \E i \in 1..5 :
           ret[1][2][i][2] <
               calculate_health_score_from_nutrition(
                   CsvRow("Lunch", LunchDishes[9]).nutrition_data,
                   analyzer.prioritize_protein)[1]

-----------------------------------------------------------------------------
(* The nutrition extractor as a function: one call on one detail URL *)

BrokenUrl == urljoin(DetailUrl("999"))

\* a detail page whose nutrition table makes the parse raise
BrokenPage == [Dish("Mystery Casserole", "999", 0, 0, 0, 0, 0, 0, 0).page EXCEPT !.broken = TRUE]

\* the URLs of the detail pages, one the upstream answers with an error
\* status, and one whose page cannot be parsed
ExtractUrls ==
    {DetailPages[i][1] : i \in 1..Len(DetailPages)}
        \cup {urljoin(DetailUrl("404")), BrokenUrl}

\* the upstream reachable or not
ExtractServers ==
    {[detail_up |-> up, detail |-> Put(DetailPages, BrokenUrl, BrokenPage)] : up \in BOOLEAN}

InitExtract ==
    /\ pc = "call"
    /\ analyzer = None
    /\ arg \in [url : ExtractUrls, server : ExtractServers]
    /\ ret = None
    /\ calls = <<>>
    /\ NoRequest

\* one call of extract_nutrition_data; the `except Exception` around its whole
\* body leaves no path on which it raises
Extract ==
    /\ pc = "call"
    /\ ret' = extract_nutrition_data(arg.url, arg.server)
    /\ pc' = "returned"
    /\ UNCHANGED <<analyzer, arg, calls, pipeVars>>

NextExtract == Extract

SpecExtract == InitExtract /\ [][NextExtract]_vars

\* what happened to the fetch and the parse of the call
FetchOutcome ==
    IF ~arg.server.detail_up THEN "network_error"
    ELSE IF ~HasKey(arg.server.detail, arg.url) THEN "http_error"
    ELSE IF Get(arg.server.detail, arg.url, None).broken THEN "parse_error"
    ELSE "ok"

\* C27: extract_nutrition_data never raises: whatever happens to the fetch and
\* the parse (network error, HTTP error status, exception while parsing), the
\* call returns a record, and after any such error every numeric field of the
\* record is 0 and its serving size and ingredients are empty.
C27_ExtractNeverRaises ==
    /\ pc \in {"call", "returned"}
    /\ pc = "returned" =>
          /\ ret.url = arg.url
          /\ FetchOutcome # "ok" =>
                /\ ret.calories = 0 /\ ret.protein_g = 0 /\ ret.total_fat_g = 0
                /\ ret.saturated_fat_g = 0 /\ ret.dietary_fiber_g = 0
                /\ ret.sodium_mg = 0 /\ ret.added_sugars_g = 0
                /\ ret.serving_size = "" /\ ret.ingredients = ""

\* the parse of a fetched page raised, and the all-default record came back
C27_Witness ==
    /\ pc = "returned"
    /\ FetchOutcome = "parse_error"
    /\ ret.food_name = "Unknown" /\ ret.calories = 0 /\ ret.serving_size = ""

\* one object of a reply
LlmItem(food_name, score, reasoning) ==
    << <<"food_name", food_name>>, <<"score", score>>, <<"reasoning", reasoning>> >>

\* the same object with one key left out
Without(item_info, key) == SelectSeq(item_info, LAMBDA kv : kv[1] # key)

LlmLunch ==
    <<"Lunch", <<LlmItem("CYO Pasta Bowl", 85, "Balanced, high protein"),
                 LlmItem("Chicken Caesar Wrap", 60, "High sodium")>> >>

LlmDinner ==
    <<"Dinner", <<LlmItem("Baked Salmon", 95, "Lean protein, omega-3"),
                  LlmItem("Beef Stir-Fry", 70, "Good protein")>> >>

LlmBody(breakfast) == << <<"Breakfast", breakfast>>, LlmLunch, LlmDinner >>

\* a well-formed reply about the first two dishes of each meal
GoodBreakfast ==
    <<LlmItem("Scrambled Eggs", 90, "High protein"),
      LlmItem("Bacon", 40, "Processed meat, high sodium")>>

\* the answers of the model's endpoint: an HTTP error, a text without JSON,
\* a well-formed reply, an item without food_name, an item without score,
\* a score outside 0-100, an item that is not on the menu
LlmReplies ==
    {LlmReply("http_error", <<>>),
     LlmReply("no_json", <<>>),
     LlmReply("json", LlmBody(GoodBreakfast)),
     LlmReply("json", LlmBody(<<Without(GoodBreakfast[1], "food_name"), GoodBreakfast[2]>>)),
     LlmReply("json", LlmBody(<<Without(GoodBreakfast[1], "score"), GoodBreakfast[2]>>)),
     LlmReply("json", LlmBody(<<LlmItem("Scrambled Eggs", 150, "High protein"),
                                GoodBreakfast[2]>>)),
     LlmReply("json", LlmBody(<<LlmItem("Avocado Toast", 92, "Healthy fats"),
                                GoodBreakfast[2]>>))}

ApiKey == "test-key"

\* the upstream serving its full pages while a key is configured
LLMSites ==
    {[MkSite(TRUE, CampusSelect, DateSelect, MealSelect, {}, 2, detail_up)
        EXCEPT !.api_key = ApiKey, !.llm = reply] :
        detail_up \in BOOLEAN, reply \in LlmReplies}

-----------------------------------------------------------------------------
(* The analyze entrypoints and MenuAnalyzer.run_analysis, step by step *)

Entrypoints == {"main", "handler", "simple"}

\* analysis_type is read by main.py's route alone
AnalysisTypes(e) == IF e = "main" THEN {"detailed", "standard", "quick"} ELSE {"detailed"}

\* the serverless handler looks at the method itself; Flask lets only POST in
Methods(e) == IF e = "handler" THEN {"POST", "OPTIONS", "GET"} ELSE {"POST"}

Requests(e) ==
    [method : Methods(e), campus : {"altoona-port-sky"}, vegetarian : BOOLEAN,
     vegan : BOOLEAN, exclude_beef : BOOLEAN, exclude_pork : BOOLEAN,
     prioritize_protein : BOOLEAN, analysis_type : AnalysisTypes(e)]

ErrorBody(msg) == << <<"error", msg>> >>

Init ==
    /\ pc = "idle"
    /\ analyzer = None
    /\ arg = None /\ ret = None /\ calls = <<>>
    /\ NoRequest

\* a request arrives at one of the entrypoints
Receive ==
    /\ pc = "idle"
    /\ \E e \in Entrypoints :
         /\ entry' = e
         /\ req' \in Requests(e)
         \* main_simple.py never goes to the network
         /\ site' \in IF e = "simple" THEN {None} ELSE Sites
    /\ pc' = "handle"
    /\ UNCHANGED <<analyzer, fnVars, net, runVars, response>>

\* src/main.py analyze(): validation and construction of the analyzer
MainAnalyze ==
    /\ pc = "handle"
    /\ entry = "main"
    /\ IF req.vegan /\ req.vegetarian
       THEN /\ response' = [status |-> 400,
                            body |-> ErrorBody("Cannot be both vegan and vegetarian")]
            /\ pc' = "done"
            /\ UNCHANGED analyzer
       ELSE /\ analyzer' = MkAnalyzer(req.exclude_beef, req.exclude_pork, req.vegetarian,
                                      req.vegan, req.prioritize_protein,
                                      req.analysis_type = "detailed", site.api_key)
            /\ pc' = IF req.analysis_type = "quick" THEN "quick_form" ELSE "form"
            /\ UNCHANGED response
    /\ UNCHANGED <<fnVars, entry, req, site, net, runVars>>

\* src/api/analyze.py handler(): method checks, validation, construction
\* of the analyzer. The handler imports MenuAnalyzer from the module
\* menu_analyzer; it is taken to be the class of src/main.py, whose
\* extract_nutrition defaults to False
HandlerAnalyze ==
    /\ pc = "handle"
    /\ entry = "handler"
    /\ IF req.method = "OPTIONS"
       THEN /\ response' = [status |-> 200, body |-> <<>>]
            /\ pc' = "done"
            /\ UNCHANGED analyzer
       ELSE IF req.method # "POST"
       THEN /\ response' = [status |-> 405, body |-> ErrorBody("Method not allowed")]
            /\ pc' = "done"
            /\ UNCHANGED analyzer
       ELSE IF req.vegan /\ req.vegetarian
       THEN /\ response' = [status |-> 400,
                            body |-> ErrorBody("Cannot be both vegan and vegetarian")]
            /\ pc' = "done"
            /\ UNCHANGED analyzer
       ELSE /\ analyzer' = MkAnalyzer(req.exclude_beef, req.exclude_pork, req.vegetarian,
                                      req.vegan, req.prioritize_protein, FALSE,
                                      site.api_key)
            /\ pc' = "form"
            /\ UNCHANGED response
    /\ UNCHANGED <<fnVars, entry, req, site, net, runVars>>

simple_results ==
    << <<"Breakfast",
         << <<"Scrambled Eggs", 75, "High protein, good for breakfast", "#">>,
            <<"Oatmeal", 70, "High fiber, heart healthy", "#">>,
            <<"Greek Yogurt", 65, "High protein, probiotics", "#">>,
            <<"Fresh Fruit", 60, "Natural vitamins and fiber", "#">>,
            <<"Whole Grain Toast", 55, "Complex carbohydrates", "#">> >> >>,
       <<"Lunch",
         << <<"Grilled Chicken Salad", 80, "High protein, low calorie", "#">>,
            <<"Salmon Fillet", 75, "Omega-3 fatty acids, high protein", "#">>,
            <<"Quinoa Bowl", 70, "Complete protein, high fiber", "#">>,
            <<"Turkey Sandwich", 65, "Lean protein, balanced meal", "#">>,
            <<"Vegetable Soup", 60, "Low calorie, high nutrients", "#">> >> >>,
       <<"Dinner",
         << <<"Baked Salmon", 85, "High protein, omega-3s", "#">>,
            <<"Grilled Chicken Breast", 80, "Lean protein, low fat", "#">>,
            <<"Vegetable Stir Fry", 75, "High fiber, vitamins", "#">>,
            <<"Brown Rice Bowl", 70, "Complex carbs, fiber", "#">>,
            <<"Roasted Vegetables", 65, "Antioxidants, vitamins", "#">> >> >> >>

simple_meats == <<"chicken", "salmon", "turkey", "beef", "pork">>

\* the three filters of main_simple.py's analyze(), one meal
SimpleFilter(items, data) ==
    LET a == IF data.vegetarian \/ data.vegan
             THEN SelectSeq(items, LAMBDA t : ~AnyIn(simple_meats, Lower(t[1])))
             ELSE items
        b == IF data.exclude_beef
             THEN SelectSeq(a, LAMBDA t : ~Contains(Lower(t[1]), "beef"))
             ELSE a
    IN  IF data.exclude_pork
        THEN SelectSeq(b, LAMBDA t : ~Contains(Lower(t[1]), "pork"))
        ELSE b

\* src/main_simple.py analyze(): the whole handler
SimpleAnalyze ==
    /\ pc = "handle"
    /\ entry = "simple"
    /\ result' = [m \in 1..Len(simple_results) |->
                    <<simple_results[m][1], SimpleFilter(simple_results[m][2], req)>>]
    /\ response' = [status |-> 200, body |-> result']
    /\ pc' = "done"
    /\ UNCHANGED <<analyzer, fnVars, entry, req, site, net, form_options, campus_value,
                   date_value, meal_index, daily_menu, csv_path, analyzed_results,
                   filtered_results>>

-----------------------------------------------------------------------------
(* MenuAnalyzer.run_analysis *)

PostCall(form_data) == [method |-> "POST", url |-> base_url, data |-> form_data]

\* the request is served by run_analysis: main.py's route unless the analysis
\* is the quick one, and the serverless handler
RunsAnalysis ==
    \/ entry = "main" /\ req.analysis_type # "quick"
    \/ entry = "handler"

\* lines 420-423: the form page is fetched; a failed GET ends in the fallback
FetchForm ==
    /\ pc = "form"
    /\ net' = Append(net, GetCall(base_url))
    /\ IF site.form_ok
       THEN /\ form_options' = get_initial_form_data(site.page)
            /\ pc' = "resolve"
            /\ UNCHANGED result
       ELSE /\ result' = get_fallback_data(analyzer, site)
            /\ pc' = "respond"
            /\ UNCHANGED form_options
    /\ UNCHANGED <<analyzer, fnVars, entry, req, site, campus_value, date_value,
                   meal_index, daily_menu, csv_path, analyzed_results,
                   filtered_results, response>>

\* lines 425-448: campus and date are resolved, or the fallback is returned
Resolve ==
    /\ pc = "resolve"
    /\ LET found == find_campus_value(analyzer.campus_key, form_options.campus)
       IN  IF found = None \/ Len(form_options.date) = 0
           THEN /\ result' = get_fallback_data(analyzer, site)
                /\ pc' = "respond"
                /\ UNCHANGED <<campus_value, date_value, meal_index>>
           ELSE /\ campus_value' = found
                /\ date_value' = form_options.date[1][2]
                /\ meal_index' = 1
                /\ pc' = "meal"
                /\ UNCHANGED result
    /\ UNCHANGED <<analyzer, fnVars, entry, req, site, net, form_options, daily_menu,
                   csv_path, analyzed_results, filtered_results, response>>

\* a loop body that records nothing for a meal whose POST failed
RecordMealDroppingFailed(menu, meal_name, post) ==
    IF post.ok THEN Put(menu, meal_name, extract_items_from_meal_page(post.anchors))
    ELSE menu

\* lines 461-476: the items of the meal page, or {} when the page holds none
\* or the POST raised a RequestException
RecordMeal(menu, meal_name, post) ==
    Put(menu, meal_name,
        IF post.ok THEN extract_items_from_meal_page(post.anchors) ELSE <<>>)

\* lines 450-476, one turn of the loop over Breakfast, Lunch, Dinner
FetchMeal ==
    /\ pc = "meal"
    /\ meal_index <= Len(Meals)
    /\ LET meal_name == Meals[meal_index]
           meal_value == Get(form_options.meal, Lower(meal_name), None)
           form_data == [selCampus |-> campus_value, selMeal |-> meal_value,
                         selMenuDate |-> date_value]
       IN  IF meal_value = None
           THEN UNCHANGED <<net, daily_menu>>
           ELSE /\ net' = Append(net, PostCall(form_data))
                /\ LET post == Get(site.posts, meal_value, [ok |-> FALSE, anchors |-> <<>>])
                   IN  daily_menu' = RecordMeal(daily_menu, meal_name, post)
    /\ meal_index' = meal_index + 1
    /\ pc' = IF meal_index = Len(Meals) THEN "analyze" ELSE "meal"
    /\ UNCHANGED <<analyzer, fnVars, entry, req, site, form_options, campus_value,
                   date_value, csv_path, analyzed_results, filtered_results, result,
                   response>>

\* the name generate_nutrition_csv gives the file (its timestamp left out)
CsvFile == "nutrition_data/nutrition_data_altoona-port-sky.csv"

\* the GETs analyze_menu_local makes: every item that has a detail page
LocalGets(menu) == Flatten([m \in 1..Len(menu) |-> DetailGets(menu[m][2])])

\* the calls of analyze_menu_with_gemini: the POST to the model, then the
\* GETs of analyze_menu_local when it fell back
GeminiGets(menu, self, server) ==
    <<GeminiCall(self)>>
        \o IF GeminiRaises(server.llm) THEN LocalGets(menu) ELSE <<>>

\* `... if self.gemini_api_key else ...`
HasKeyConfigured(self) == self.gemini_api_key # None

\* lines 478-535: the scraped menu is scored, or the fallback is returned when
\* no meal was recorded
Analyze ==
    /\ pc = "analyze"
    /\ IF Len(daily_menu) = 0
       THEN /\ result' = get_fallback_data(analyzer, site)
            /\ pc' = "respond"
            /\ UNCHANGED <<net, csv_path, analyzed_results>>
       ELSE /\ IF analyzer.extract_nutrition
               THEN LET csv_data == NutritionRows(daily_menu, site)
                    IN  IF Len(csv_data) > 0
                        THEN /\ csv_path' = CsvFile
                             /\ net' = net \o LocalGets(daily_menu)
                                          \o IF HasKeyConfigured(analyzer)
                                             THEN <<GeminiCall(analyzer)>> ELSE <<>>
                             /\ analyzed_results' =
                                   IF HasKeyConfigured(analyzer)
                                   THEN analyze_menu_with_gemini_csv(csv_data, analyzer, site)
                                   ELSE analyze_menu_local_from_csv(csv_data, analyzer)
                        \* no row: the items are walked a second time, then
                        \* scored from their names
                        ELSE /\ csv_path' = None
                             /\ net' = net \o LocalGets(daily_menu) \o LocalGets(daily_menu)
                                          \o IF HasKeyConfigured(analyzer)
                                             THEN GeminiGets(daily_menu, analyzer, site)
                                             ELSE LocalGets(daily_menu)
                             /\ analyzed_results' =
                                   IF HasKeyConfigured(analyzer)
                                   THEN analyze_menu_with_gemini(daily_menu, analyzer, site)
                                   ELSE analyze_menu_local(daily_menu, analyzer, site)
               ELSE /\ net' = net \o IF HasKeyConfigured(analyzer)
                                     THEN GeminiGets(daily_menu, analyzer, site)
                                     ELSE LocalGets(daily_menu)
                    /\ analyzed_results' =
                          IF HasKeyConfigured(analyzer)
                          THEN analyze_menu_with_gemini(daily_menu, analyzer, site)
                          ELSE analyze_menu_local(daily_menu, analyzer, site)
                    /\ UNCHANGED csv_path
            /\ pc' = "rank"
            /\ UNCHANGED result
    /\ UNCHANGED <<analyzer, fnVars, entry, req, site, form_options, campus_value,
                   date_value, meal_index, daily_menu, filtered_results, response>>

\* str(e) of the AttributeError that None.lower() raises
NoneHasNoLower == "'NoneType' object has no attribute 'lower'"

\* the final loop calls .lower() on a name that is None: on every item in
\* apply_hard_filters when a filter is set, on the top 5 in the CYO count
RankRaises(results, self) ==
    \E m \in 1..Len(results) :
        LET items == results[m][2]
        IN  IF self.exclude_beef \/ self.exclude_pork \/ self.vegetarian \/ self.vegan
            THEN \E i \in 1..Len(items) : items[i][1] = None
            ELSE \E i \in 1..Min(5, Len(items)) : items[i][1] = None

\* lines 537-562: hard filters, top 5 with the CYO extras, the CSV path and
\* the nutrition data of what is displayed
Rank ==
    /\ pc = "rank"
    /\ IF RankRaises(analyzed_results, analyzer)
       THEN /\ result' = NoneHasNoLower
            /\ pc' = "raised"
            /\ UNCHANGED <<filtered_results, net>>
       ELSE /\ filtered_results' =
                  [m \in 1..Len(analyzed_results) |->
                      <<analyzed_results[m][1],
                        apply_hard_filters(analyzed_results[m][2], analyzer)>>]
            /\ LET final_results ==
                       [m \in 1..Len(analyzed_results) |->
                           <<filtered_results'[m][1], RankMeal(filtered_results'[m][2])>>]
                   with_path == IF analyzer.extract_nutrition
                                THEN Put(final_results, "_csv_path", csv_path)
                                ELSE final_results
               IN  IF analyzer.extract_nutrition
                   THEN /\ result' = enhance_recommendations_with_nutrition(with_path, site)
                        /\ net' = net \o EnhanceGets(with_path)
                   ELSE /\ result' = with_path
                        /\ UNCHANGED net
            /\ pc' = "respond"
    /\ UNCHANGED <<analyzer, fnVars, entry, req, site, form_options, campus_value,
                   date_value, meal_index, daily_menu, csv_path, analyzed_results,
                   response>>

\* jsonify(recommendations) / json.dumps(recommendations)
Respond ==
    /\ pc = "respond"
    /\ response' = [status |-> 200, body |-> result]
    /\ pc' = "done"
    /\ UNCHANGED <<analyzer, fnVars, entry, req, site, net, runVars>>

InternalError == "An internal server error occurred."

\* what the missing module's analysis may raise in the serverless handler
HandlerExceptionTexts ==
    {NoneHasNoLower, "Gemini API error: 503 Service Unavailable"}

\* src/api/analyze.py imports MenuAnalyzer from menu_analyzer, a module that is
\* not in the repository: its run_analysis raises one of these
AnalyzerRaises ==
    /\ pc = "form"
    /\ entry = "handler"
    /\ result' \in HandlerExceptionTexts
    /\ pc' = "raised"
    /\ UNCHANGED <<analyzer, fnVars, entry, req, site, net, form_options, campus_value,
                   date_value, meal_index, daily_menu, csv_path, analyzed_results,
                   filtered_results, response>>

\* the `except Exception as e` of the two entrypoints; result holds str(e)
RespondError ==
    /\ pc = "raised"
    /\ response' =
          IF entry = "handler"
             /\ (\/ Contains(result, "Gemini API")
                 \/ Contains(result, "503")
                 \/ Contains(result, "Service Unavailable"))
          THEN [status |-> 500, body |-> ErrorBody(result)]
          ELSE [status |-> 500, body |-> ErrorBody(InternalError)]
    /\ pc' = "done"
    /\ UNCHANGED <<analyzer, fnVars, entry, req, site, net, runVars>>

-----------------------------------------------------------------------------
(* MenuAnalyzer.run_quick_analysis, without an API key *)

\* lines 876-878
QuickFetchForm ==
    /\ pc = "quick_form"
    /\ net' = Append(net, GetCall(base_url))
    /\ IF site.form_ok
       THEN /\ form_options' = get_initial_form_data(site.page)
            /\ pc' = "quick_resolve"
            /\ UNCHANGED result
       ELSE /\ result' = ErrorBody("Could not fetch menu data")
            /\ pc' = "respond"
            /\ UNCHANGED form_options
    /\ UNCHANGED <<analyzer, fnVars, entry, req, site, campus_value, date_value,
                   meal_index, daily_menu, csv_path, analyzed_results,
                   filtered_results, response>>

\* lines 880-901: the date first, then the campus
QuickResolve ==
    /\ pc = "quick_resolve"
    /\ LET found == find_campus_value(analyzer.campus_key, form_options.campus)
       IN  IF Len(form_options.date) = 0
           THEN /\ result' = ErrorBody("No date options available")
                /\ pc' = "respond"
                /\ UNCHANGED <<campus_value, date_value, meal_index>>
           ELSE IF found = None
           THEN /\ result' = ErrorBody("Could not find campus: " \o analyzer.campus_key)
                /\ pc' = "respond"
                /\ UNCHANGED <<campus_value, date_value, meal_index>>
           ELSE /\ campus_value' = found
                /\ date_value' = form_options.date[1][2]
                /\ meal_index' = 1
                /\ pc' = "quick_meal"
                /\ UNCHANGED result
    /\ UNCHANGED <<analyzer, fnVars, entry, req, site, net, form_options, daily_menu,
                   csv_path, analyzed_results, filtered_results, response>>

\* lines 903-925, one turn of the loop: a meal is recorded only when items
\* were found
QuickFetchMeal ==
    /\ pc = "quick_meal"
    /\ meal_index <= Len(Meals)
    /\ LET meal_name == Meals[meal_index]
           meal_value == Get(form_options.meal, Lower(meal_name), None)
           form_data == [selCampus |-> campus_value, selMeal |-> meal_value,
                         selMenuDate |-> date_value]
       IN  IF meal_value = None
           THEN UNCHANGED <<net, daily_menu>>
           ELSE /\ net' = Append(net, PostCall(form_data))
                /\ LET post == Get(site.posts, meal_value, [ok |-> FALSE, anchors |-> <<>>])
                       items == IF post.ok THEN extract_items_from_meal_page(post.anchors)
                                ELSE <<>>
                   IN  daily_menu' = IF Len(items) > 0
                                     THEN Put(daily_menu, meal_name, items)
                                     ELSE daily_menu
    /\ meal_index' = meal_index + 1
    /\ pc' = IF meal_index = Len(Meals) THEN "quick_analyze" ELSE "quick_meal"
    /\ UNCHANGED <<analyzer, fnVars, entry, req, site, form_options, campus_value,
                   date_value, csv_path, analyzed_results, filtered_results, result,
                   response>>

\* lines 927-928 and 986-988: without gemini_url the menu is scored locally
\* and returned as analyze_menu_local leaves it
QuickAnalyze ==
    /\ pc = "quick_analyze"
    /\ IF Len(daily_menu) = 0
       THEN /\ result' = ErrorBody("Could not fetch menu data")
            /\ UNCHANGED net
       ELSE /\ result' = analyze_menu_local(daily_menu, analyzer, site)
            /\ net' = net \o LocalGets(daily_menu)
    /\ pc' = "respond"
    /\ UNCHANGED <<analyzer, fnVars, entry, req, site, form_options, campus_value,
                   date_value, meal_index, daily_menu, csv_path, analyzed_results,
                   filtered_results, response>>

Next ==
    \/ Receive
    \/ MainAnalyze
    \/ HandlerAnalyze
    \/ SimpleAnalyze
    \/ FetchForm
    \/ Resolve
    \/ FetchMeal
    \/ Analyze
    \/ Rank
    \/ Respond
    \/ QuickFetchForm
    \/ QuickResolve
    \/ QuickFetchMeal
    \/ QuickAnalyze

Spec == Init /\ [][Next]_vars

-----------------------------------------------------------------------------
(* The same entrypoints with GEMINI_API_KEY configured *)

\* a request for run_analysis arrives while a key is configured
ReceiveLLM ==
    /\ pc = "idle"
    /\ \E e \in {"main", "handler"} :
         /\ entry' = e
         /\ req' \in {r \in Requests(e) : r.analysis_type # "quick"}
         /\ site' \in LLMSites
    /\ pc' = "handle"
    /\ UNCHANGED <<analyzer, fnVars, net, runVars, response>>

NextLLM ==
    \/ ReceiveLLM
    \/ MainAnalyze
    \/ HandlerAnalyze
    \/ FetchForm
    \/ Resolve
    \/ FetchMeal
    \/ Analyze
    \/ Rank
    \/ Respond
    \/ AnalyzerRaises
    \/ RespondError

SpecLLM == Init /\ [][NextLLM]_vars

-----------------------------------------------------------------------------
(* Properties of the entrypoints and of run_analysis *)

\* run_analysis was called for this request and has returned
Returned == pc \in {"respond", "done"} /\ RunsAnalysis /\ Len(net) > 0

\* run_analysis returned what it scored from the scraped menu
ReturnedScraped == Returned /\ Len(analyzed_results) > 0

\* the positions of a result that hold a meal
MealsOf(r) == {m \in 1..Len(r) : r[m][1] \notin {"_csv_path", "error"}}

CyoCount(items) == Cardinality({i \in 1..Len(Take(items, 5)) : IsCyo(items[i][1])})

DistinctScores(items) ==
    \A i, j \in 1..Len(items) : i # j => items[i][2] # items[j][2]

\* C2: at each of the three analyze entrypoints a POST with vegan and
\* vegetarian both true is answered with status 400 and an error body, with no
\* network call made and no menu result produced.
C2_BothRejected ==
    (pc = "done" /\ req.method = "POST" /\ req.vegan /\ req.vegetarian) =>
        /\ response.status = 400
        /\ Keys(response.body) = <<"error">>
        /\ net = <<>>

FallbackNames ==
    {"Scrambled Eggs", "Turkey Sausage", "Oatmeal", "Grilled Chicken Salad",
     "Turkey Club Sandwich", "Quinoa Bowl", "Baked Salmon", "Beef Stir-Fry",
     "Grilled Chicken Breast"}

\* C3: when the GET of the form page fails, run_analysis returns a result
\* whose keys are Breakfast, Lunch, Dinner, that holds at least one item, and
\* whose item names are all among the nine fallback names; the entrypoint
\* answers it with status 200.
C3_FormFailureFallback ==
    (Returned /\ ~site.form_ok) =>
        /\ Keys(result) = <<"Breakfast", "Lunch", "Dinner">>
        /\ \E m \in 1..Len(result) : Len(result[m][2]) > 0
        /\ \A m \in 1..Len(result) : \A i \in 1..Len(result[m][2]) :
               result[m][2][i][1] \in FallbackNames
        /\ pc = "done" => response.status = 200 /\ response.body = result

C3_Witness ==
    /\ pc = "done" /\ RunsAnalysis /\ Len(net) = 1
    /\ ~site.form_ok
    /\ req.vegan /\ response.status = 200
    /\ Len(response.body) = 3
    /\ Len(response.body[1][2]) > 0
    /\ Len(response.body[3][2]) = 0

C5_Terms ==
    <<"beef", "pork", "chicken", "turkey", "fish", "salmon", "tuna", "bacon",
      "sausage", "ham">>

C5_Allowed(t) == ~AnyIn(C5_Terms, Lower(t[1]))

\* the menu of the stub scenario and what run_analysis makes of it once
\* scraped, nutrition extraction off
StubMenu == << <<"Breakfast", << <<"Scrambled Eggs", "#">>, <<"Bacon", "#">> >> >> >>

StubPipeline(self, server) ==
    LET analyzed == analyze_menu_local(StubMenu, self, server)
    IN  [m \in 1..Len(analyzed) |->
            <<analyzed[m][1], RankMeal(apply_hard_filters(analyzed[m][2], self))>>]

C7_Terms ==
    <<"beef", "pork", "chicken", "turkey", "fish", "salmon", "tuna", "bacon",
      "sausage", "ham", "egg", "eggs", "dairy", "milk", "cheese", "butter", "yogurt">>

\* C7: with vegan set and vegetarian not, no item of any meal in the response
\* of main.py's pipeline, of the serverless handler or of main_simple.py has a
\* name that contains a vegetarian term or egg, eggs, dairy, milk, cheese,
\* butter, yogurt.
C7_VeganResponse ==
    (/\ pc = "done" /\ req.method = "POST" /\ req.vegan /\ ~req.vegetarian
     /\ entry = "simple" \/ RunsAnalysis) =>
        \A m \in MealsOf(response.body) : \A i \in 1..Len(response.body[m][2]) :
            ~AnyIn(C7_Terms, Lower(response.body[m][2][i][1]))

\* C8: each meal's list in the result of run_analysis is in descending order
\* of score, strictly so when the scored items it was made from have distinct
\* scores, and holds at most 5 items, or at most 5+k when k of its first 5
\* items are CYO items.
C8_RankedDescending ==
    Returned =>
        \A m \in MealsOf(result) :
            LET items == result[m][2]
            IN  /\ \A i, j \in 1..Len(items) : i < j => items[i][2] >= items[j][2]
                /\ (Len(analyzed_results) > 0 /\ DistinctScores(analyzed_results[m][2])) =>
                       \A i, j \in 1..Len(items) : i < j => items[i][2] > items[j][2]
                /\ Len(items) <= 5 + CyoCount(items)

C8_Witness ==
    /\ pc = "done" /\ RunsAnalysis /\ Len(net) > 0
    /\ Len(analyzed_results) > 0
    /\ Len(analyzed_results[1][2]) = MaxMenuItems
    /\ DistinctScores(analyzed_results[1][2])
    /\ CyoCount(result[1][2]) = 1
    /\ Len(result[1][2]) = 6
    /\ \E i \in 1..Len(result[1][2]) : result[1][2][i][2] < 100

\* the scraped items of a meal that pass the hard filters
Passing(meal) ==
    SelectSeq(Get(daily_menu, meal, <<>>), LAMBDA kv : ~Excluded(Lower(kv[1]), analyzer))

\* C9: whichever way run_analysis scored the scraped menu, with or without
\* nutrition extraction, a meal with k >= 1 CYO items among its top 5 and at
\* least 5+k items that pass the hard filters is returned with exactly 5+k
\* items.
C9_CyoExtras ==
    ReturnedScraped =>
        \A m \in MealsOf(result) :
            LET items == result[m][2]
                k == CyoCount(items)
            IN  (k >= 1 /\ Len(Passing(result[m][1])) >= 5 + k) => Len(items) = 5 + k

\* the name under which the scraped menu lists a detail URL at a meal
MenuName(meal, url) ==
    LET items == Get(daily_menu, meal, <<>>)
    IN  items[CHOOSE i \in 1..Len(items) : items[i][2] = url][1]

\* the upstream gives no nutrition data for this detail URL
NoNutritionData(url) == extract_nutrition_data(url, site).calories = 0

\* C14: in what run_analysis scored locally from the scraped menu, every
\* item whose nutrient record is absent or has calories = 0 (its extraction
\* failed) carries the keyword score and the keyword reasoning of its food
\* name.
C14_DegradedKeywordScore ==
    ReturnedScraped =>
        \A m \in 1..Len(analyzed_results) :
            \A i \in 1..Len(analyzed_results[m][2]) :
                LET it == analyzed_results[m][2][i]
                IN  NoNutritionData(it[4]) =>
                        <<it[2], it[3]>> =
                            _fallback_keyword_scoring(MenuName(analyzed_results[m][1], it[4]),
                                                      analyzer.prioritize_protein)

\* the form page was fetched, campus and date resolve, at least one meal has a
\* selector value, and the POST of every such meal fails
EveryMealPostFails ==
    /\ site.form_ok
    /\ site.page.campus = CampusSelect
    /\ Len(site.page.date) > 0
    /\ Len(site.page.meal) > 0
    /\ \A i \in 1..Len(site.page.meal) :
           ~Get(site.posts, site.page.meal[i][2], [ok |-> FALSE]).ok

\* a result made of the sample menu: some meal holds an item, and every item
\* is one of the sample menu's
FromSampleMenu(r) ==
    /\ ~HasKey(r, "error")
    /\ \E m \in MealsOf(r) : Len(r[m][2]) > 0
    /\ \A m \in MealsOf(r) : \A i \in 1..Len(r[m][2]) : r[m][2][i][1] \in FallbackNames

\* C15: when the form page is fetched and the POST of every meal that has a
\* selector value fails, run_analysis returns a result scored from the sample
\* menu, not one whose meals are all empty.
C15_AllPostsFailFallback ==
    (Returned /\ EveryMealPostFails) => FromSampleMenu(result)

\* C16: when no campus option matches the campus key, run_analysis and
\* run_quick_analysis both return a result made of the sample menu and never
\* an error result; when the campus resolves and there are dates, the run goes
\* on with the first date of the date map.
C16_CampusNotFoundFallback ==
    /\ (/\ pc \in {"respond", "done"} /\ entry \in {"main", "handler"} /\ Len(net) > 0
        /\ site.form_ok /\ site.page.campus = CampusSelectWithoutAltoona)
       => FromSampleMenu(result)
    /\ pc \in {"meal", "quick_meal", "analyze", "quick_analyze", "rank"}
       => date_value = site.page.date[1][2]

\* C17: whenever an exception is raised while an analyze request is handled,
\* by main.py's route or by the serverless handler, the response is a 500 whose
\* body is the generic internal-error message; the exception's text is never
\* in the body.
C17_GenericInternalError ==
    (pc = "done" /\ response.status = 500) => response.body = ErrorBody(InternalError)

\* the call to the model failed or its output is malformed: an HTTP error, no
\* JSON object, or an item without food_name or without score
LlmFailed(reply) ==
    \/ reply.kind \in {"http_error", "no_json"}
    \/ /\ reply.kind = "json"
       /\ \E m \in 1..Len(reply.body) : \E i \in 1..Len(reply.body[m][2]) :
              \/ ~HasKey(reply.body[m][2][i], "food_name")
              \/ ~HasKey(reply.body[m][2][i], "score")

\* what run_analysis returns for the scraped menu when it scores locally
LocalOutcome ==
    LET csv_data == NutritionRows(daily_menu, site)
        analyzed == IF analyzer.extract_nutrition /\ Len(csv_data) > 0
                    THEN analyze_menu_local_from_csv(csv_data, analyzer)
                    ELSE analyze_menu_local(daily_menu, analyzer, site)
        final_results ==
            [m \in 1..Len(analyzed) |->
                <<analyzed[m][1], RankMeal(apply_hard_filters(analyzed[m][2], analyzer))>>]
    IN  IF analyzer.extract_nutrition
        THEN enhance_recommendations_with_nutrition(
                 Put(final_results, "_csv_path", csv_path), site)
        ELSE final_results

\* C18: with an API key configured, when the call to the model fails or its
\* output is malformed, no exception leaves run_analysis and what it returns
\* is what local scoring returns for the same menu.
C18_LlmFailureIsLocal ==
    (/\ Len(net) > 0 /\ entry = "main" /\ pc \in {"respond", "raised", "done"}
     /\ HasKeyConfigured(analyzer) /\ Len(daily_menu) > 0 /\ LlmFailed(site.llm))
    => /\ pc # "raised"
       /\ pc = "done" => response.status = 200
       /\ pc = "respond" => result = LocalOutcome

\* run_analysis returned a result (no exception left it)
ReturnedResult ==
    /\ Returned
    /\ pc = "done" => response.status = 200

\* C19: every item run_analysis returns, on the local path, the model's path,
\* the model's path with local recalculation and the fallback path, has a name
\* that is not null, an integer score between 0 and 100, a reasoning string
\* and a URL string.
C19_ItemsWellFormed ==
    ReturnedResult =>
        \A m \in MealsOf(result) : \A i \in 1..Len(result[m][2]) :
            LET it == result[m][2][i]
            IN  /\ it[1] # None
                /\ it[2] \in 0..100
                /\ it[3] # None
                /\ it[4] # None

\* C20: with extract_nutrition every item of every meal run_analysis returns
\* is a 5-tuple, on every return path, the fallback-menu returns included.
C20_FiveTuples ==
    (Returned /\ analyzer.extract_nutrition) =>
        \A m \in MealsOf(result) : \A i \in 1..Len(result[m][2]) :
            Len(result[m][2][i]) = 5

\* the label of the day the request is served, as the site writes it
Today == "Friday, November 6"

\* positions of the date options whose label is today's, whatever the case
TodayOptions == {i \in 1..Len(site.page.date) : Lower(site.page.date[i][1]) = Lower(Today)}

\* the meal-page POSTs made so far
MealPosts == SelectSeq(net, LAMBDA c : c.method = "POST" /\ c.url = base_url)

\* C23: when the date map holds today's label, the date value posted for
\* every meal is the value of that label, even when it is not the first
\* entry; the first entry is posted only when today's label is absent.
C23_TodayDatePosted ==
    (entry \in {"main", "handler"} /\ Len(net) > 0) =>
        \A k \in 1..Len(MealPosts) :
            MealPosts[k].data.selMenuDate =
                IF TodayOptions # {}
                THEN site.page.date[CHOOSE i \in TodayOptions : TRUE][2]
                ELSE site.page.date[1][2]

\* the meal selector of the form page has no value for this meal
NoSelectorValue(meal_name) == ~HasKey(form_options.meal, Lower(meal_name))

\* the POST of this meal was issued and answered
MealFetched(meal_name) ==
    /\ HasKey(form_options.meal, Lower(meal_name))
    /\ Get(site.posts, Get(form_options.meal, Lower(meal_name), None), [ok |-> FALSE]).ok

MealNames == {Meals[i] : i \in 1..Len(Meals)}

\* C25: when the meal selector lacks a value for one of Breakfast, Lunch,
\* Dinner while another meal is fetched, run_analysis is not aborted and the
\* skipped meal is in the run's menu and in the returned result with an empty
\* item list.
C25_SkippedMealListed ==
    (/\ Returned /\ Len(daily_menu) > 0
     /\ \E other \in MealNames : MealFetched(other))
    => \A meal_name \in MealNames :
           NoSelectorValue(meal_name) =>
               /\ HasKey(daily_menu, meal_name)
               /\ Get(daily_menu, meal_name, None) = <<>>
               /\ HasKey(result, meal_name)
               /\ Get(result, meal_name, None) = <<>>

\* the POSTs issued for a meal: those carrying the meal's selector value
PostsOf(meal_name) ==
    SelectSeq(MealPosts, LAMBDA c :
        c.data.selMeal = Get(form_options.meal, Lower(meal_name), None))

\* the loop over the meals of run_analysis is over
MealsLooped ==
    /\ RunsAnalysis
    /\ pc \in {"analyze", "rank", "respond", "done"}
    /\ meal_index > Len(Meals)

\* C26: when the POST of a meal fails in run_analysis, the meal is recorded
\* with an empty item list, the POST of every other meal that has a selector
\* value is still issued, and every meal whose POST was answered holds the
\* items of its page.
C26_FailedPostTolerated ==
    MealsLooped =>
        \A meal_name \in MealNames :
            ~NoSelectorValue(meal_name) =>
                /\ Len(PostsOf(meal_name)) = 1
                /\ HasKey(daily_menu, meal_name)
                /\ IF MealFetched(meal_name)
                   THEN \A i \in 1..Len(site.page.meal) :
                            site.page.meal[i][1] = meal_name =>
                                Get(daily_menu, meal_name, None) =
                                    extract_items_from_meal_page(
                                        Get(site.posts, site.page.meal[i][2], None).anchors)
                   ELSE Get(daily_menu, meal_name, None) = <<>>

\* the Lunch POST failed between two answered POSTs: three POSTs were made,
\* Lunch is recorded empty, Breakfast and Dinner hold their items
C26_Witness ==
    /\ MealsLooped /\ pc = "done"
    /\ Len(MealPosts) = 3
    /\ ~MealFetched("Lunch") /\ MealFetched("Breakfast") /\ MealFetched("Dinner")
    /\ Get(daily_menu, "Lunch", None) = <<>>
    /\ Len(Get(daily_menu, "Breakfast", <<>>)) = MaxMenuItems
    /\ Len(Get(daily_menu, "Dinner", <<>>)) = MaxMenuItems

\* position of a meal in the order Breakfast, Lunch, Dinner
MealRank(meal_name) ==
    CASE meal_name = "Breakfast" -> 1 [] meal_name = "Lunch" -> 2 [] meal_name = "Dinner" -> 3

\* the meal whose selector value a POST carries
MealOfPost(c) ==
    site.page.meal[CHOOSE i \in 1..Len(site.page.meal) : site.page.meal[i][2] = c.data.selMeal][1]

SelectorValues(options) == {options[i][2] : i \in 1..Len(options)} \ {""}

IsMealPost(c) == c.method = "POST" /\ c.url = base_url

\* C28: in every execution of run_analysis the GET of the form page is the
\* first network call; a meal page is POSTed only after that GET succeeded, a
\* campus value was found and the date map is not empty; the POSTs come at most
\* once per meal in the order Breakfast, Lunch, Dinner, each with the campus
\* and date values the form page gave; scoring and filtering, and the GETs
\* they make, start only after the last meal POST.
C28_CallOrder ==
    (RunsAnalysis /\ Len(net) > 0) =>
        /\ net[1] = GetCall(base_url)
        /\ \A k \in 2..Len(net) :
               IsMealPost(net[k]) =>
                   /\ site.form_ok
                   /\ net[k].data.selCampus \in SelectorValues(site.page.campus)
                   /\ net[k].data.selCampus = campus_value
                   /\ net[k].data.selMenuDate \in SelectorValues(site.page.date)
                   /\ net[k].data.selMenuDate = date_value
                   /\ net[k].data.selMeal \in SelectorValues(site.page.meal)
        /\ \A j, k \in 2..Len(net) :
               (j < k /\ IsMealPost(net[j]) /\ IsMealPost(net[k])) =>
                   MealRank(MealOfPost(net[j])) < MealRank(MealOfPost(net[k]))
        /\ \A j, k \in 2..Len(net) :
               (j < k /\ net[j].method = "GET") => ~IsMealPost(net[k])
        /\ (Len(analyzed_results) > 0 \/ Len(filtered_results) > 0)
               => pc \in {"rank", "respond", "done"}

\* a run POSTed the three meals and then fetched detail pages to score them
C28_Witness ==
    /\ RunsAnalysis /\ pc = "done"
    /\ Len(MealPosts) = 3
    /\ Len(net) > 4
    /\ IsMealPost(net[2]) /\ IsMealPost(net[3]) /\ IsMealPost(net[4])
    /\ net[5].method = "GET"
    /\ MealOfPost(net[4]) = "Dinner"
    /\ Len(filtered_results) > 0

\* C30: in the result run_analysis scores locally from the scraped menu, with
\* or without nutrition extraction, every item's name is a name the scraper
\* extracted for that meal in this run, and its URL is the detail URL scraped
\* for that name.
C30_NamesAreScraped ==
    ReturnedScraped =>
        \A m \in MealsOf(result) :
            \A i \in 1..Len(result[m][2]) :
                LET scraped == Get(daily_menu, result[m][1], <<>>)
                    it == result[m][2][i]
                IN  /\ HasKey(scraped, it[1])
                    /\ Get(scraped, it[1], None) = it[4]

=============================================================================
